---- MODULE Spec2Model ----
(***************************************************************************)
(* Spark: ideas, elements, the spark route and the prompt pipeline.        *)
(*                                                                         *)
(* These specifications share this module:                                 *)
(*   SummarySpec  the prompt pipeline (lib/prompts: buildElementsSummary), *)
(*                a pure function applied to bounded element collections;  *)
(*   PipelineSpec the summary builder and the system prompt composer, each *)
(*                applied more than once, on short collections with and    *)
(*                without timestamps;                                      *)
(*   ComposerSpec getSystemPromptWithIdea on bounded inputs;               *)
(*   ContextSpec  metaUrl, metaFilename and buildElementContext on one     *)
(*                element;                                                 *)
(*   IdeaSpec     the ideas table and the operations that create, archive  *)
(*                and restore ideas (home page, idea page, scouts page);   *)
(*   Spec         the /api/spark route and the handlers that call it;      *)
(*   DeleteSpec   deleteIdea next to the handlers that add elements to     *)
(*                the idea (quick add, file upload, spark);                *)
(*   PageSpec     the handlers of the idea, drawer, jots and inbox pages   *)
(*                that act on an existing element;                         *)
(*   TopicsSpec   toggleInterest of the scouts page;                       *)
(*   ScoutsSpec   expandScout, goDeeper and saveToJots on one scout;       *)
(*   ToastSpec    showToast and its hide timer, and ToastLiveSpec, which   *)
(*                adds that a pending timer fires;                         *)
(*   BusySpec     the busy flags of fireSpark and fireMiniSpark, and       *)
(*                BusyLiveSpec, which adds that an awaited call returns.   *)
(*                                                                         *)
(* Storage is the two tables the code reads and writes through the        *)
(* Supabase client, ideas and elements, as plain sets of rows: the code    *)
(* relies on no constraint of the schema (deleteIdea deletes the elements  *)
(* itself).  The rows are the user's, but for one idea and one element of  *)
(* another user, which row-level security hides from every query.          *)
(* Every awaited storage or network call is a step of its own, so the      *)
(* handlers of several open pages and of the route interleave at their     *)
(* awaits.                                                                 *)
(*                                                                         *)
(* Strings are TLA+ strings; a value JavaScript treats as falsy (null,     *)
(* undefined, '') is the empty string.  The em dash (U+2014) of the        *)
(* description separator is written "-" (one UTF-16 unit either way).      *)
(***************************************************************************)
EXTENDS Integers, Sequences, FiniteSets, TLC

VARIABLES
    \* ---- SummarySpec: the prompt pipeline ----
    elements,       \* the collection handed to buildElementsSummary
    lines,          \* the lines array of the last call
    summary,        \* the string the last call returned
    built,          \* TRUE once buildElementsSummary ran on `elements`
    sorted,         \* the `sorted` array of the last call
    summaryCalls,   \* how many times buildElementsSummary ran on `elements`
    composed,       \* getSystemPromptWithIdea: the arguments and the result
                    \* of the last call, and the number of calls
    context,        \* metaUrl, metaFilename, buildElementContext: the
                    \* element and the results of the last call
    \* ---- storage ----
    ideasTable,     \* the ideas table: id -> status ("none": no such row)
    elementsTable,  \* the elements table: a set of rows
    nextElementId,  \* the id the next inserted element gets
    \* ---- IdeaSpec: the pages that create, archive and restore ideas ----
    homeIdeas,      \* Home: the `ideas` state (ids of the loaded active ideas)
    ideasLoaded,    \* Home: the `ideasLoaded` state
    ideaPage,       \* IdeaView: the `idea` state, [id, status] (id 0: none)
    unarchiveCount, \* IdeaView.unarchiveIdea: the count it read, -1 if idle
    \* ---- the idea page's elements and the calls in flight ----
    ideaElements,   \* IdeaView: the `elements` and `archivedElements` states
    deletingIdea,   \* IdeaView.deleteIdea: the idea whose elements were
                    \* deleted and whose row is not deleted yet (0: none)
    pendingInsert,  \* IdeaView: the row handleQuickAdd or uploadFile is about
                    \* to insert, <<>> if none
    pendingMeta,    \* IdeaView.handleQuickAdd: the link whose metadata is being
                    \* fetched, <<>> if none
    spark,          \* the /api/spark request in flight and its caller
    \* ---- TopicsSpec: the topics of the Scouts page ----
    interests,      \* ScoutsPage: the `interests` state, as a set
    scoutInterests, \* user_settings.scout_interests of the user
    toggled,        \* the topic of the last toggleInterest call ("": none)
    toggleCalls,    \* how many times toggleInterest was called
    saveCalls,      \* how many times saveInterests was called
    \* ---- ToastSpec: the toast of the Home and Scouts pages ----
    toast,          \* the `toast` state ("": null)
    toastTimer,     \* toastTimer.current: the id of the last timer (0: null)
    toastTimers,    \* the ids of the timers that are set and have not fired
    toastCalls,     \* how many times showToast was called
    lastToast,      \* the message of the last showToast call
    \* ---- ScoutsSpec: one scout of the Scouts page ----
    scouts,         \* the scout's entry in the `scouts` state
    expandedScout,  \* the `expandedScout` state: <<>> (null) or <<scout>>
    expandingId,    \* expandScout in flight: <<>> or <<its scout argument>>
    showLenses,     \* the `showLenses` state
    deepeningLens,  \* the `deepeningLens` state ("": null)
    deepening,      \* goDeeper in flight: its lens and its expandedScout
    saving,         \* saveToJots in flight: the expandedScout of each call
    saveToJotsCalls, \* how many times saveToJots was called
    jotsInserted,   \* how many elements saveToJots inserted for the scout
    usedLenses,     \* the lenses a goDeeper call got an answer for
    \* ---- BusySpec: the busy flags of the spark buttons ----
    sparkLoading,   \* IdeaView's `sparkLoading` state ("": null)
    miniSparkLoading, \* IdeaView's `miniSparkLoading` state ("": null)
    jotsMiniSparkLoading, \* JotsPage's `miniSparkLoading` state ("": null)
    showCustom,     \* IdeaView's `showCustom` state
    typedPrompt,    \* IdeaView's `customPrompt` state
    sparkCalls,     \* the fireSpark and fireMiniSpark calls at an await
    busyCalls       \* how many such calls were made

summaryVars ==
    <<elements, lines, summary, built, sorted, summaryCalls, composed, context>>
storageVars == <<ideasTable, elementsTable, nextElementId>>
ideaVars == <<homeIdeas, ideasLoaded, ideaPage, unarchiveCount>>
homeVars == <<homeIdeas, ideasLoaded, unarchiveCount>>
flightVars == <<deletingIdea, pendingInsert, pendingMeta, spark>>
coreVars == <<summaryVars, storageVars, ideaVars, ideaElements, flightVars>>
topicsVars ==
    <<interests, scoutInterests, toggled, toggleCalls, saveCalls>>
toastVars == <<toast, toastTimer, toastTimers, toastCalls, lastToast>>
scoutVars ==
    <<scouts, expandedScout, expandingId, showLenses, deepeningLens,
      deepening, saving, saveToJotsCalls, jotsInserted, usedLenses>>
busyVars ==
    <<sparkLoading, miniSparkLoading, jotsMiniSparkLoading, showCustom,
      typedPrompt, sparkCalls, busyCalls>>
uiVars == <<topicsVars, toastVars, scoutVars, busyVars>>

vars == <<elements, lines, summary, built,
          sorted, summaryCalls, composed, context,
          ideasTable, elementsTable, nextElementId,
          homeIdeas, ideasLoaded, ideaPage, unarchiveCount,
          ideaElements, deletingIdea, pendingInsert, pendingMeta, spark,
          interests, scoutInterests, toggled, toggleCalls, saveCalls,
          toast, toastTimer, toastTimers, toastCalls, lastToast,
          scouts, expandedScout, expandingId, showLenses, deepeningLens,
          deepening, saving, saveToJotsCalls, jotsInserted, usedLenses,
          sparkLoading, miniSparkLoading, jotsMiniSparkLoading, showCustom,
          typedPrompt, sparkCalls, busyCalls>>

-----------------------------------------------------------------------------
(* Bounds of the model *)

\* Longest element collection handed to the summary builder.
MaxElems == 12
\* How many elements of a collection differ from the filler element.
MaxVaried == 2
\* How many idea rows are ever created.
MaxIdeas == 6
\* How many active ideas the user has when IdeaSpec starts.
InitialIdeas == 3
\* Longest collection of PipelineSpec.
MaxSortLen == 4
\* How many times a function of the prompt library is applied to one input.
MaxCalls == 2

-----------------------------------------------------------------------------
(* String helpers (JavaScript String methods) *)

Min(a, b) == IF a < b THEN a ELSE b

RECURSIVE Rep(_, _)
\* c repeated n times
Rep(c, n) ==
    IF n = 0 THEN ""
    ELSE IF n % 2 = 0 THEN LET h == Rep(c, n \div 2) IN h \o h
    ELSE c \o Rep(c, n - 1)

\* s.slice(0, n)
slice(s, n) == SubSeq(s, 1, Min(n, Len(s)))

\* s.includes(d)
includes(s, d) ==
    \E i \in 0..(Len(s) - Len(d)) : SubSeq(s, i + 1, i + Len(d)) = d

RECURSIVE join(_, _)
\* lines.join(sep)
join(ls, sep) ==
    IF Len(ls) = 0 THEN ""
    ELSE IF Len(ls) = 1 THEN ls[1]
    ELSE ls[1] \o sep \o join(Tail(ls), sep)

-----------------------------------------------------------------------------
(* lib/prompts: buildElementsSummary *)

MAX_RECENT_ELEMENTS == 10
MAX_CONTENT_LENGTH == 300
\* content.length > 80: the cut for older elements
OLDER_CONTENT_LENGTH == 80
\* note.length > 100: the cut for a user note
NOTE_LENGTH == 100

\* (mutant) the raw content is preferred to the title
contentOrTitle(el) ==
    IF el.content # "" THEN el.content
    ELSE IF el.metadata.title # "" THEN el.metadata.title
    ELSE ""

\* (mutant) the comparator sorts the earlier timestamp first
compareCreatedAtAscending(a, b) ==
    IF a.created_at = 0 \/ b.created_at = 0 THEN 0
    ELSE a.created_at - b.created_at

\* The comparator of the sort: 0 when either side lacks created_at (0 here),
\* otherwise b - a, so that the later timestamp sorts first.
compareCreatedAt(a, b) ==
    IF a.created_at = 0 \/ b.created_at = 0 THEN 0
    ELSE b.created_at - a.created_at

RECURSIVE insertSorted(_, _)
\* One step of the (stable) insertion sort Array.prototype.sort performs on a
\* short array: x moves left past every element the comparator puts after it.
insertSorted(p, x) ==
    IF Len(p) = 0 THEN <<x>>
    ELSE IF compareCreatedAt(p[Len(p)], x) > 0
         THEN Append(insertSorted(SubSeq(p, 1, Len(p) - 1), x), p[Len(p)])
         ELSE Append(p, x)

RECURSIVE sortElements(_)
\* [...elements].sort(comparator)
sortElements(els) ==
    IF Len(els) = 0 THEN <<>>
    ELSE insertSorted(sortElements(SubSeq(els, 1, Len(els) - 1)), els[Len(els)])

\* The comparator is a consistent comparator for the values of the array
\* (ECMA-262, Array.prototype.sort): comparing as equal and comparing as
\* smaller are transitive.  Reflexivity and antisymmetry hold by the
\* comparator's form.
consistentComparator(els) ==
    LET vals == {els[i] : i \in 1..Len(els)}
    IN  \A a, b, c \in vals :
            /\ compareCreatedAt(a, b) = 0 /\ compareCreatedAt(b, c) = 0
                    => compareCreatedAt(a, c) = 0
            /\ compareCreatedAt(a, b) < 0 /\ compareCreatedAt(b, c) < 0
                    => compareCreatedAt(a, c) < 0

\* every order of the array's elements
permutations(els) ==
    LET n == Len(els)
    IN  {[i \in 1..n |-> els[f[i]]] :
            f \in {g \in [1..n -> 1..n] :
                       \A i, j \in 1..n : g[i] = g[j] => i = j}}

\* What [...elements].sort(comparator) can return.  With a consistent
\* comparator the sort is stable and has one result.  With a comparator that
\* is not consistent the order is implementation-defined: whichever order
\* the engine's algorithm leaves the elements in.
sortOutcomes(els) ==
    IF consistentComparator(els) THEN {sortElements(els)}
    ELSE permutations(els)

\* prefix: [spark] for an AI element, [<type>] otherwise
linePrefix(el) ==
    IF el.source = "ai" THEN "[spark]" ELSE "[" \o el.type \o "]"

\* metadata.title if present, else the raw content
titleOrContent(el) ==
    IF el.metadata.title # "" THEN el.metadata.title
    ELSE IF el.content # "" THEN el.content
    ELSE ""

\* the description is appended unless the content already includes it
withDescription(el, content) ==
    IF el.metadata.description # "" /\ ~includes(content, el.metadata.description)
    THEN IF content # "" THEN content \o " - " \o el.metadata.description
         ELSE el.metadata.description
    ELSE content

\* el.metadata.url || el.metadata.public_url
elUrl(el) ==
    IF el.metadata.url # "" THEN el.metadata.url ELSE el.metadata.public_url

\* el.metadata.filename || el.metadata.file_name
elFilename(el) ==
    IF el.metadata.filename # "" THEN el.metadata.filename
    ELSE el.metadata.file_name

\* the url, then the filename, stand in for a content that is still empty
withFallbacks(el, content) ==
    LET c1 == IF content = "" /\ elUrl(el) # "" THEN elUrl(el) ELSE content
    IN  IF c1 = "" /\ elFilename(el) # "" THEN elFilename(el) ELSE c1

\* the content of a line before truncation
derivedContent(el) == withFallbacks(el, withDescription(el, titleOrContent(el)))

\* (mutant) the older cut applied at every index
truncateContentEverywhere(content, index) ==
    IF Len(content) > OLDER_CONTENT_LENGTH
    THEN slice(content, OLDER_CONTENT_LENGTH) \o "..."
    ELSE content

\* (mutant) only the recent elements are cut, the long tail is kept whole
truncateContentRecentOnly(content, index) ==
    IF index < MAX_RECENT_ELEMENTS /\ Len(content) > MAX_CONTENT_LENGTH
    THEN slice(content, MAX_CONTENT_LENGTH) \o "..."
    ELSE content

\* older elements are cut at 80, recent ones at MAX_CONTENT_LENGTH
truncateContent(content, index) ==
    IF index >= MAX_RECENT_ELEMENTS
    THEN IF Len(content) > OLDER_CONTENT_LENGTH
         THEN slice(content, OLDER_CONTENT_LENGTH) \o "..."
         ELSE content
    ELSE IF Len(content) > MAX_CONTENT_LENGTH
         THEN slice(content, MAX_CONTENT_LENGTH) \o "..."
         ELSE content

\* note.length > 100 ? note.slice(0, 100) + '...' : note
truncatedNote(note) ==
    IF Len(note) > NOTE_LENGTH THEN slice(note, NOTE_LENGTH) \o "..." ELSE note

\* the user's note is appended after the content was truncated
withNote(el, content) ==
    IF el.metadata.note # ""
    THEN content \o " [user note: \"" \o truncatedNote(el.metadata.note) \o "\"]"
    ELSE content

\* (mutant) the note is appended before the content is truncated
summaryLineNoteFirst(el, index) ==
    linePrefix(el) \o " "
        \o truncateContent(withNote(el, derivedContent(el)), index)

\* lines.push(`${prefix} ${content}`) for the element at `index` of sorted
summaryLine(el, index) ==
    linePrefix(el) \o " "
        \o withNote(el, truncateContent(derivedContent(el), index))

\* elements.length - MAX_RECENT_ELEMENTS
olderCount(els) == Len(els) - MAX_RECENT_ELEMENTS

\* the indicator line
markerLine(n) == "\n[..." \o ToString(n) \o " earlier elements, summarized...]"

\* (mutant) the marker is pushed at the end instead of spliced in
spliceMarkerAtEnd(ls, marker) == Append(ls, marker)

\* lines.splice(MAX_RECENT_ELEMENTS, 0, marker)
spliceMarker(ls, marker) ==
    SubSeq(ls, 1, MAX_RECENT_ELEMENTS) \o <<marker>>
        \o SubSeq(ls, MAX_RECENT_ELEMENTS + 1, Len(ls))

\* (mutant) the lines array outlives the call
keptLines == lines

\* const lines: string[] = []
newLines == <<>>

\* the lines array at the return statement, `order` being the sorted array
summaryLines(els, order) ==
    LET pushed == newLines
                    \o [i \in 1..Len(order) |-> summaryLine(order[i], i - 1)]
    IN  IF Len(els) > MAX_RECENT_ELEMENTS
        THEN spliceMarker(pushed, markerLine(olderCount(els)))
        ELSE pushed

\* (mutant) an empty collection yields the composer's placeholder
buildElementsSummaryPlaceholder(els, order) ==
    IF Len(els) = 0 THEN "No elements collected yet."
    ELSE join(summaryLines(els, order), "\n")

\* if (!elements.length) return '' ... return lines.join('\n')
buildElementsSummary(els, order) ==
    IF Len(els) = 0 THEN "" ELSE join(summaryLines(els, order), "\n")

-----------------------------------------------------------------------------
(* The element collections the summary builder is applied to *)

\* A metadata map with none of the keys the code reads or writes.
NoMeta ==
    [title |-> "", description |-> "", url |-> "", public_url |-> "",
     filename |-> "", file_name |-> "", note |-> "", summary |-> "",
     related |-> "", drawer |-> "", source |-> "", spark_type |-> "",
     prompt |-> "", domain |-> "", bucket |-> "", file_type |-> ""]

\* A full-size element: the longest type name, a content over
\* MAX_CONTENT_LENGTH and a note over NOTE_LENGTH.
Filler ==
    [type |-> "article", source |-> "user", content |-> Rep("a", 301),
     metadata |-> [NoMeta EXCEPT !.note = Rep("n", 101)], created_at |-> 2]

VariedElements ==
    { \* a recent thought between the two cuts, no note
      [type |-> "thought", source |-> "user", content |-> Rep("b", 81),
       metadata |-> NoMeta, created_at |-> 3],
      \* an old spark exactly at the older cut, with a note exactly at its cut
      [type |-> "spark", source |-> "ai", content |-> Rep("c", 80),
       metadata |-> [NoMeta EXCEPT !.note = Rep("m", 100)], created_at |-> 1],
      \* a link with fetched title and description and a short note
      [type |-> "article", source |-> "user", content |-> "",
       metadata |-> [NoMeta EXCEPT !.title = "Title", !.description = "Desc",
                                   !.url = "https://u", !.note = "keep"],
       created_at |-> 2],
      \* an old thought exactly at MAX_CONTENT_LENGTH
      [type |-> "thought", source |-> "user", content |-> Rep("d", 300),
       metadata |-> NoMeta, created_at |-> 1] }

Varied(els) == Cardinality({i \in 1..Len(els) : els[i] # Filler})

-----------------------------------------------------------------------------
(* SummarySpec *)

\* no call of the composer
NoComposed ==
    [ideaTitle |-> "", currentThinking |-> "", elementsSummary |-> "",
     elementCount |-> 0, output |-> "", calls |-> 0]

\* no call of the context builder
NoContext ==
    [el |-> <<>>, metaUrl |-> "", metaFilename |-> "", output |-> "",
     calls |-> 0]

\* no call of the prompt library
LibraryIdle ==
    /\ lines = <<>>
    /\ summary = ""
    /\ built = FALSE
    /\ sorted = <<>>
    /\ summaryCalls = 0
    /\ composed = NoComposed
    /\ context = NoContext

\* no call of the summary builder, no collection
SummaryIdle ==
    /\ elements = <<>>
    /\ LibraryIdle

\* no /api/spark request: the fields are the Authorization header, the
\* request body (ideaId, sparkType, customPrompt, drawerMode, attachment: a
\* sequence of none or one), what the route hands to the LLM (the elements it
\* loaded, its digest of them, the system prompt, the user prompt and the
\* content blocks of the user message, what the fetch of the attachment did),
\* the caller's closure (which handler waits, the element it was fired on and
\* the metadata key it will write) and the response (status and JSON body)
NoSpark ==
    [pc |-> "idle", caller |-> "", authHeader |-> "", ideaId |-> 0,
     sparkType |-> "", customPrompt |-> "", drawerMode |-> FALSE,
     attachment |-> <<>>,
     elId |-> 0, elMetadata |-> NoMeta, enrich |-> "", userPrompt |-> "",
     loaded |-> <<>>, elementsSummary |-> "", systemPrompt |-> "",
     messageContent |-> <<>>, fetched |-> <<>>,
     status |-> 0, success |-> FALSE, content |-> "", error |-> ""]

\* the Scouts page of a user who has chosen no topic yet
TopicsIdle ==
    /\ interests = {}
    /\ scoutInterests = {}
    /\ toggled = ""
    /\ toggleCalls = 0
    /\ saveCalls = 0

\* no toast shown, no timer set
ToastIdle ==
    /\ toast = ""
    /\ toastTimer = 0
    /\ toastTimers = {}
    /\ toastCalls = 0
    /\ lastToast = ""

\* a scout as generateScouts returns it
NewScout == [expanded |-> FALSE, deeperResults |-> <<>>, savedToJots |-> FALSE]

\* the Scouts page shows the list with one scout
ScoutsIdle ==
    /\ scouts = NewScout
    /\ expandedScout = <<>>
    /\ expandingId = <<>>
    /\ showLenses = FALSE
    /\ deepeningLens = ""
    /\ deepening = <<>>
    /\ saving = <<>>
    /\ saveToJotsCalls = 0
    /\ jotsInserted = 0
    /\ usedLenses = {}

\* no spark running, the custom prompt closed and empty
BusyIdle ==
    /\ sparkLoading = ""
    /\ miniSparkLoading = ""
    /\ jotsMiniSparkLoading = ""
    /\ showCustom = FALSE
    /\ typedPrompt = ""
    /\ sparkCalls = <<>>
    /\ busyCalls = 0

\* nothing done yet on the pages' own state
UiIdle == TopicsIdle /\ ToastIdle /\ ScoutsIdle /\ BusyIdle

\* no idea page open, Home not loaded, no call in flight
IdeaPagesIdle ==
    /\ UiIdle
    /\ homeIdeas = {}
    /\ ideasLoaded = FALSE
    /\ ideaPage = [id |-> 0, status |-> "none"]
    /\ unarchiveCount = -1
    /\ ideaElements = {}
    /\ deletingIdea = 0
    /\ pendingInsert = <<>>
    /\ pendingMeta = <<>>
    /\ spark = NoSpark

\* empty tables
StorageEmpty ==
    /\ ideasTable = [i \in 1..MaxIdeas |-> "none"]
    /\ elementsTable = {}
    /\ nextElementId = 1

SummaryInit ==
    /\ SummaryIdle
    /\ StorageEmpty
    /\ IdeaPagesIdle

\* One more element is collected.
AddElement(el) ==
    /\ ~built
    /\ Len(elements) < MaxElems
    /\ el = Filler \/ Varied(elements) < MaxVaried
    /\ elements' = Append(elements, el)
    /\ UNCHANGED <<uiVars, lines, summary, built, sorted, summaryCalls, composed,
                   context, storageVars, ideaVars, ideaElements, flightVars>>

\* buildElementsSummary(elements), the first call on the collection: the
\* sort leaves the copy in one of the orders it can.
BuildSummary ==
    /\ ~built
    /\ \E order \in sortOutcomes(elements) :
           /\ sorted' = order
           /\ lines' = summaryLines(elements, order)
           /\ summary' = buildElementsSummary(elements, order)
    /\ built' = TRUE
    /\ summaryCalls' = 1
    /\ UNCHANGED <<uiVars, elements, composed, context, storageVars, ideaVars,
                   ideaElements, flightVars>>

\* buildElementsSummary(elements), called again on the same collection: the
\* engine's sort is an algorithm without randomness, it orders the same array
\* the same way.
BuildSummaryAgain ==
    /\ built
    /\ summaryCalls < MaxCalls
    /\ sorted' = sorted
    /\ lines' = summaryLines(elements, sorted)
    /\ summary' = buildElementsSummary(elements, sorted)
    /\ summaryCalls' = summaryCalls + 1
    /\ UNCHANGED <<uiVars, elements, built, composed, context, storageVars, ideaVars,
                   ideaElements, flightVars>>

SummaryNext ==
    \/ \E el \in VariedElements \cup {Filler} : AddElement(el)
    \/ BuildSummary

SummarySpec == SummaryInit /\ [][SummaryNext]_vars

-----------------------------------------------------------------------------
(* PipelineSpec: short collections, with and without timestamps *)

\* Two elements without created_at and two with different timestamps, told
\* apart by their content.
ShortElements ==
    { [type |-> "thought", source |-> "user", content |-> c,
       metadata |-> NoMeta, created_at |-> t]
        : <<c, t>> \in {<<"a", 0>>, <<"b", 0>>, <<"p", 1>>, <<"q", 2>>} }

\* the collections of at most MaxSortLen of them, in every order
ShortCollections == UNION {[1..n -> ShortElements] : n \in 0..MaxSortLen}

PipelineInit ==
    /\ elements \in ShortCollections
    /\ LibraryIdle
    /\ StorageEmpty
    /\ IdeaPagesIdle


-----------------------------------------------------------------------------
(* The metadata helpers of the pages and lib/prompts: buildElementContext *)

\* (mutant) the legacy key is preferred
metaUrlLegacyFirst(meta) ==
    IF meta.public_url # "" THEN meta.public_url ELSE meta.url

\* meta?.url || meta?.public_url
metaUrl(meta) == IF meta.url # "" THEN meta.url ELSE meta.public_url

\* meta?.filename || meta?.file_name || 'File'
metaFilename(meta) ==
    IF meta.filename # "" THEN meta.filename
    ELSE IF meta.file_name # "" THEN meta.file_name
    ELSE "File"

\* [...].filter(Boolean)
filterBoolean(items) == SelectSeq(items, LAMBDA item : item # "")

\* (mutant) the empty entries are joined too
buildElementContextUnfiltered(element, url, filename) ==
    join(<<element.content,
           IF url # "" THEN "URL: " \o url ELSE "",
           IF element.metadata.title # ""
           THEN "Title: " \o element.metadata.title ELSE "",
           IF element.metadata.description # ""
           THEN "Description: " \o element.metadata.description ELSE "",
           IF element.type = "file" \/ element.type = "image"
           THEN "File: " \o filename ELSE "">>, "\n")

\* buildElementContext(element, metaUrl, metaFilename)
buildElementContext(element, url, filename) ==
    join(filterBoolean(
             <<element.content,
               IF url # "" THEN "URL: " \o url ELSE "",
               IF element.metadata.title # ""
               THEN "Title: " \o element.metadata.title ELSE "",
               IF element.metadata.description # ""
               THEN "Description: " \o element.metadata.description ELSE "",
               IF element.type = "file" \/ element.type = "image"
               THEN "File: " \o filename ELSE "">>), "\n")

-----------------------------------------------------------------------------
(* ContextSpec: the functions of one element *)

\* An element with each field the functions read present or absent; the
\* content is absent, one line, a line that holds the description, or two
\* paragraphs (Edit is a textarea).
FieldElements ==
    { [type |-> type, source |-> source, content |-> content,
       metadata |-> [NoMeta EXCEPT !.title = title, !.description = desc,
                                   !.url = url, !.public_url = public_url,
                                   !.filename = filename,
                                   !.file_name = file_name],
       created_at |-> 1]
        : type \in {"thought", "file", "image"}, source \in {"user", "ai"},
          content \in {"", "hello", "about Desc", "a\n\nb"},
          title \in {"", "Title"}, desc \in {"", "Desc"},
          url \in {"", "https://u"}, public_url \in {"", "https://legacy"},
          filename \in {"", "f.pdf"}, file_name \in {"", "old.pdf"} }

ContextInit ==
    /\ elements \in {<<el>> : el \in FieldElements}
    /\ LibraryIdle
    /\ StorageEmpty
    /\ IdeaPagesIdle

\* fireMiniSpark, up to the request: the url and the filename are resolved
\* and the element's context is built.
BuildContext(el) ==
    /\ context.calls = 0
    /\ context' =
           [el |-> el,
            metaUrl |-> metaUrl(el.metadata),
            metaFilename |-> metaFilename(el.metadata),
            output |-> buildElementContext(el, metaUrl(el.metadata),
                                           metaFilename(el.metadata)),
            calls |-> 1]
    /\ UNCHANGED <<uiVars, elements, lines, summary, built, sorted, summaryCalls,
                   composed, storageVars, ideaVars, ideaElements, flightVars>>

ContextNext ==
    \/ BuildSummary
    \/ \E i \in 1..Len(elements) : BuildContext(elements[i])

ContextSpec == ContextInit /\ [][ContextNext]_vars

-----------------------------------------------------------------------------
(* lib/prompts: getSystemPromptWithIdea *)

SYSTEM_PROMPT_BASE ==
    "You are Spark, a thinking partner who helps users develop their"
        \o " ideas. You're not a generic assistant - you're a warm"
        \o " provocateur who pushes people to think harder and clearer.\n"
        \o "\n"
        \o "YOUR ROLE:\n"
        \o "- Make the user think, don't think for them\n"
        \o "- Challenge assumptions without being harsh\n"
        \o "- Ask genuine questions, not rhetorical ones\n"
        \o "- Reference their specific content, never be generic\n"
        \o "- Keep the ball in their court\n"
        \o "\n"
        \o "YOUR TONE:\n"
        \o "- Direct but warm - like a smart friend who genuinely wants to"
        \o " help\n"
        \o "- Curious and engaged - you find their ideas interesting\n"
        \o "- Concise - say what matters, skip the filler\n"
        \o "- NOT sycophantic (\"Great idea!\"), NOT harsh (\"This is"
        \o " flawed\"), NOT corporate (\"Based on my analysis\")\n"
        \o "\n"
        \o "CRITICAL RULES:\n"
        \o "- EVERY response must end with a genuine question back to the"
        \o " user\n"
        \o "- Be concise: 2-5 sentences max, then your question\n"
        \o "- One focused insight per response, not a list of observations\n"
        \o "- NEVER say you \"cannot access URLs\" - you have the context"
        \o " provided\n"
        \o "- NEVER use markdown headers, bullets, or formatting - plain"
        \o " prose only\n"
        \o "- NEVER start with \"Based on...\" or \"Looking at...\" - just"
        \o " state your insight\n"
        \o "- Reference their actual words, titles, and content - be specific"

\* the count from which an idea has substantial material
SUBSTANTIAL_ELEMENTS == 15
\* the count up to which an idea is at an early stage
EARLY_STAGE_ELEMENTS == 3

\* (mutant) an idea of exactly 3 elements is no longer at an early stage
maturityNoteBelow(elementCount) ==
    IF elementCount < EARLY_STAGE_ELEMENTS
    THEN "This is an early-stage idea with only " \o ToString(elementCount)
             \o " elements - focus on helping them clarify what they're"
             \o " actually exploring."
    ELSE IF elementCount >= SUBSTANTIAL_ELEMENTS
    THEN "This idea has " \o ToString(elementCount)
             \o " elements - there's substantial material to synthesize and"
             \o " patterns to surface."
    ELSE ""

\* const maturityNote
maturityNote(elementCount) ==
    IF elementCount <= EARLY_STAGE_ELEMENTS
    THEN "This is an early-stage idea with only " \o ToString(elementCount)
             \o " elements - focus on helping them clarify what they're"
             \o " actually exploring."
    ELSE IF elementCount >= SUBSTANTIAL_ELEMENTS
    THEN "This idea has " \o ToString(elementCount)
             \o " elements - there's substantial material to synthesize and"
             \o " patterns to surface."
    ELSE ""

\* (mutant) the elements come before the current thinking
getSystemPromptElementsFirst(ideaTitle, currentThinking, elementsSummary, elementCount) ==
    SYSTEM_PROMPT_BASE
        \o "\n\nCONTEXT:\nThe user is developing an idea called \""
        \o ideaTitle \o "\".\n"
        \o (IF elementsSummary # ""
            THEN "\nTheir collected elements:\n" \o elementsSummary
            ELSE "\nNo elements collected yet.")
        \o "\n"
        \o (IF currentThinking # ""
            THEN "\nTheir current thinking:\n\"" \o currentThinking \o "\""
            ELSE "\nThey haven't written their current thinking yet.")
        \o "\n"
        \o (IF maturityNote(elementCount) # ""
            THEN "\n" \o maturityNote(elementCount) ELSE "")

\* getSystemPromptWithIdea: the template literal it returns
getSystemPromptWithIdea(ideaTitle, currentThinking, elementsSummary, elementCount) ==
    SYSTEM_PROMPT_BASE
        \o "\n\nCONTEXT:\nThe user is developing an idea called \""
        \o ideaTitle \o "\".\n"
        \o (IF currentThinking # ""
            THEN "\nTheir current thinking:\n\"" \o currentThinking \o "\""
            ELSE "\nThey haven't written their current thinking yet.")
        \o "\n"
        \o (IF elementsSummary # ""
            THEN "\nTheir collected elements:\n" \o elementsSummary
            ELSE "\nNo elements collected yet.")
        \o "\n"
        \o (IF maturityNote(elementCount) # ""
            THEN "\n" \o maturityNote(elementCount) ELSE "")

\* lib/prompts: SPARK_PROMPTS, the registry of the idea-level templates
SPARK_PROMPTS ==
    [synthesize |->
         "Look at my current thinking and the elements I've collected."
             \o " What's the through-line? Surface a pattern or connection I might"
             \o " not be seeing.\n"
             \o "\n"
             \o "Be specific - reference actual elements. Then ask me a question"
             \o " that helps me clarify or refine my thesis.",
     challenge |->
         "Push back on my current thinking. What assumption am I making"
             \o " that might be wrong? What's the weakest part of my reasoning?"
             \o " What am I avoiding or not addressing?\n"
             \o "\n"
             \o "Pick ONE thing to challenge - don't give me a list. Be direct but"
             \o " constructive. Then ask me a question that forces me to defend or"
             \o " revise my position.",
     expand |->
         "Based on my current thinking and elements, suggest ONE adjacent"
             \o " territory I should explore. This could be a different angle, an"
             \o " implication I haven't considered, or a connection to something"
             \o " outside what I've collected.\n"
             \o "\n"
             \o "Be specific and concrete - not \"consider other perspectives\""
             \o " but an actual direction. Then ask me whether this direction is"
             \o " worth pursuing and why.",
     soWhat |->
         "Given everything here - my current thinking and all these"
             \o " elements - what's the implication? If my thinking is right, what"
             \o " follows from it? What decision or action does this point"
             \o " toward?\n"
             \o "\n"
             \o "Don't tell me what to do. Surface the \"so what\" and then ask me"
             \o " what I think the next step should be."]

-----------------------------------------------------------------------------
(* ComposerSpec: the system prompt composer on bounded inputs *)

\* The largest element count handed to the composer.
MaxCount == 16

\* the titles, an empty one and one with a quotation mark among them
IdeaTitles == {"", "Tiny homes", "The \"why\""}
\* the current thinking: null or empty, or written
CurrentThinkings == {"", "Smaller is freer."}
\* the elements summary: empty, or two lines
ElementsSummaries == {"", "[thought] a\n[article] Title - Desc"}

\* getSystemPromptWithIdea(title, thinking, elementsSummary, elementCount):
\* a first call, or a further call with the arguments of the last one.
Compose(title, thinking, elementsSummary, elementCount) ==
    /\ composed.calls < MaxCalls
    /\ \/ composed.calls = 0
       \/ /\ title = composed.ideaTitle
          /\ thinking = composed.currentThinking
          /\ elementsSummary = composed.elementsSummary
          /\ elementCount = composed.elementCount
    /\ composed' =
           [ideaTitle |-> title, currentThinking |-> thinking,
            elementsSummary |-> elementsSummary,
            elementCount |-> elementCount,
            output |-> getSystemPromptWithIdea(title, thinking,
                                               elementsSummary, elementCount),
            calls |-> composed.calls + 1]
    /\ UNCHANGED <<uiVars, elements, lines, summary, built, sorted, summaryCalls,
                   context, storageVars, ideaVars, ideaElements, flightVars>>

ComposerNext ==
    \E title \in IdeaTitles, thinking \in CurrentThinkings,
       elementsSummary \in ElementsSummaries, elementCount \in 0..MaxCount :
        Compose(title, thinking, elementsSummary, elementCount)

ComposerSpec == SummaryInit /\ [][ComposerNext]_vars

\* PipelineSpec: the summary is built, and the prompt is composed from it
\* and from the collection's length.
PipelineNext ==
    \/ BuildSummary
    \/ BuildSummaryAgain
    \/ \E title \in IdeaTitles, thinking \in CurrentThinkings :
           built /\ Compose(title, thinking, summary, Len(elements))

PipelineSpec == PipelineInit /\ [][PipelineNext]_vars

-----------------------------------------------------------------------------
(* IdeaSpec: creating, archiving and restoring ideas *)

MAX_ACTIVE_IDEAS == 5
\* the literal of unarchiveIdea's check, (count || 0) >= 5
UNARCHIVE_ACTIVE_LIMIT == 5

NoIdeaPage == [id |-> 0, status |-> "none"]

ActiveIdeas == {i \in 1..MaxIdeas : ideasTable[i] = "active"}

\* the row exists ("none": no row has the id yet, "deleted": the row was
\* deleted; ids are UUIDs and never used twice)
IdeaExists(i) == ideasTable[i] \in {"active", "archived"}

\* select * from elements where idea_id = i, the active and the archived rows
loadElements(i) == {e \in elementsTable : e.idea_id = i}

\* the id an inserted idea row gets
FreeIdeaIds == {i \in 1..MaxIdeas : ideasTable[i] = "none"}
NewIdeaId == CHOOSE i \in FreeIdeaIds : \A j \in FreeIdeaIds : i <= j

\* the element Start Idea stores for the expanded scout
ScoutElement(id, ideaId) ==
    [id |-> id, idea_id |-> ideaId, type |-> "thought", source |-> "ai",
     content |-> "Scout title",
     metadata |-> [NoMeta EXCEPT !.source = "scout"], is_archived |-> FALSE]

\* Home.loadIdeas: the active ideas are loaded into the `ideas` state.
LoadIdeas ==
    /\ homeIdeas' = ActiveIdeas
    /\ ideasLoaded' = TRUE
    /\ UNCHANGED <<uiVars, summaryVars, storageVars, ideaPage, unarchiveCount,
                   ideaElements, flightVars>>

\* Home.createIdea: refused when the loaded list holds MAX_ACTIVE_IDEAS ideas;
\* otherwise the row is inserted (status defaults to active) and the browser
\* moves to the new idea's page, which unmounts Home.
HomeCreateIdea ==
    /\ ideasLoaded
    /\ ~(Cardinality(homeIdeas) >= MAX_ACTIVE_IDEAS)
    /\ FreeIdeaIds # {}
    /\ unarchiveCount = -1
    /\ ideasTable' = [ideasTable EXCEPT ![NewIdeaId] = "active"]
    /\ ideaPage' = [id |-> NewIdeaId, status |-> "active"]
    /\ ideaElements' = loadElements(NewIdeaId)
    /\ homeIdeas' = {}
    /\ ideasLoaded' = FALSE
    /\ UNCHANGED <<uiVars, summaryVars, elementsTable, nextElementId, unarchiveCount,
                   flightVars>>

\* IdeaView, mounted on /idea/i: loadIdea, loadElements and
\* loadArchivedElements.  A row that is gone leaves `idea` null.
OpenIdeaPage(i) ==
    /\ IdeaExists(i)
    /\ unarchiveCount = -1
    /\ ideaPage' = [id |-> i, status |-> ideasTable[i]]
    /\ ideaElements' = loadElements(i)
    /\ UNCHANGED <<uiVars, summaryVars, storageVars, homeVars, flightVars>>

\* IdeaView.unarchiveIdea, first await: the active ideas are counted.  Restore
\* is offered while the page's copy of the idea is archived.
UnarchiveCountActive ==
    /\ ideaPage.id # 0
    /\ ideaPage.status = "archived"
    /\ unarchiveCount = -1
    /\ unarchiveCount' = Cardinality(ActiveIdeas)
    /\ UNCHANGED <<uiVars, summaryVars, storageVars, homeIdeas, ideasLoaded, ideaPage,
                   ideaElements, flightVars>>

\* IdeaView.unarchiveIdea, after the count: the alert and return when the
\* count read is at the limit, else the update to active.
UnarchiveUpdate ==
    /\ unarchiveCount # -1
    /\ unarchiveCount' = -1
    /\ IF unarchiveCount >= UNARCHIVE_ACTIVE_LIMIT
       THEN UNCHANGED <<ideasTable, ideaPage>>
       ELSE /\ ideasTable' = [ideasTable EXCEPT ![ideaPage.id] = "active"]
            /\ ideaPage' = [ideaPage EXCEPT !.status = "active"]
    /\ UNCHANGED <<uiVars, summaryVars, elementsTable, nextElementId, homeIdeas,
                   ideasLoaded, ideaElements, flightVars>>

\* IdeaView.archiveIdea, confirmed: the update to archived, then back to Home.
\* Archive is offered while the page's copy of the idea is not archived.
ArchiveIdea ==
    /\ ideaPage.id # 0
    /\ ideaPage.status # "archived"
    /\ unarchiveCount = -1
    /\ ideasTable' = [ideasTable EXCEPT ![ideaPage.id] = "archived"]
    /\ ideaPage' = NoIdeaPage
    /\ ideaElements' = {}
    /\ UNCHANGED <<uiVars, summaryVars, elementsTable, nextElementId, homeVars,
                   flightVars>>

\* ScoutsPage.createIdea (Start Idea): the idea is inserted as active, with no
\* look at how many active ideas there are, and the scout becomes its first
\* element.
ScoutCreateIdea ==
    /\ FreeIdeaIds # {}
    /\ ideasTable' = [ideasTable EXCEPT ![NewIdeaId] = "active"]
    /\ elementsTable' =
           elementsTable \cup {ScoutElement(nextElementId, NewIdeaId)}
    /\ nextElementId' = nextElementId + 1
    /\ UNCHANGED <<uiVars, summaryVars, ideaVars, ideaElements, flightVars>>

\* The user already has InitialIdeas active ideas, created on Home.
IdeaInit ==
    /\ SummaryIdle
    /\ ideasTable =
           [i \in 1..MaxIdeas |-> IF i <= InitialIdeas THEN "active" ELSE "none"]
    /\ elementsTable = {}
    /\ nextElementId = 1
    /\ IdeaPagesIdle

IdeaNext ==
    \/ LoadIdeas
    \/ HomeCreateIdea
    \/ \E i \in 1..MaxIdeas : OpenIdeaPage(i)
    \/ UnarchiveCountActive
    \/ UnarchiveUpdate
    \/ ArchiveIdea
    \/ ScoutCreateIdea

IdeaSpec == IdeaInit /\ [][IdeaNext]_vars

\* C1: a user never has more than 5 active ideas.
C1_AtMostFiveActive == Cardinality(ActiveIdeas) <= 5

-----------------------------------------------------------------------------
(* Strings typed into the pages *)

\* How many element rows are ever inserted.
MaxElementId == 1

startsWith(s, p) == Len(s) >= Len(p) /\ SubSeq(s, 1, Len(p)) = p

RECURSIVE trimStart(_)
trimStart(s) ==
    IF Len(s) > 0 /\ SubSeq(s, 1, 1) = " "
    THEN trimStart(SubSeq(s, 2, Len(s))) ELSE s

RECURSIVE trimEnd(_)
trimEnd(s) ==
    IF Len(s) > 0 /\ SubSeq(s, Len(s), Len(s)) = " "
    THEN trimEnd(SubSeq(s, 1, Len(s) - 1)) ELSE s

\* s.trim()
trim(s) == trimEnd(trimStart(s))

\* urlPattern.test(content), /^(https?:\/\/|www\.)/i on lower-case input
isUrl(content) ==
    \/ startsWith(content, "http://")
    \/ startsWith(content, "https://")
    \/ startsWith(content, "www.")

\* content.startsWith('http') ? content : `https://${content}`
withScheme(content) ==
    IF startsWith(content, "http") THEN content ELSE "https://" \o content

RECURSIVE indexOf(_, _, _)
\* s.indexOf(d, from - 1) + 1 (0 when d does not occur)
indexOf(s, d, from) ==
    IF from + Len(d) - 1 > Len(s) THEN 0
    ELSE IF SubSeq(s, from, from + Len(d) - 1) = d THEN from
    ELSE indexOf(s, d, from + 1)

\* new URL(u).hostname for u = scheme://host[/path]
hostname(u) ==
    LET afterScheme == SubSeq(u, indexOf(u, "://", 1) + 3, Len(u))
        slash == indexOf(afterScheme, "/", 1)
    IN  IF slash = 0 THEN afterScheme ELSE SubSeq(afterScheme, 1, slash - 1)

\* s.replace(d, '') (the first occurrence only)
removeFirst(s, d) ==
    LET at == indexOf(s, d, 1)
    IN  IF at = 0 THEN s
        ELSE SubSeq(s, 1, at - 1) \o SubSeq(s, at + Len(d), Len(s))

\* getDomain(url)
getDomain(url) == removeFirst(hostname(withScheme(url)), "www.")

\* What the user types into a quick-add box: blanks only, a thought, a link.
QuickAddInputs == {"  ", " a thought ", "www.site.io/p"}

-----------------------------------------------------------------------------
(* The elements table *)

\* insert(row): the row gets the next id
insertRow(row) == elementsTable \cup {[row EXCEPT !.id = nextElementId]}

\* update(fields).eq('id', id) where `change` maps the row to the updated row
updateRow(id, change) ==
    {IF e.id = id THEN change[e] ELSE e : e \in elementsTable}

\* loadElements() after a write that left `rows` in the table: the page's
\* state changes only if the page is still mounted on idea i
reloaded(rows, i) ==
    IF ideaPage.id = i THEN {e \in rows : e.idea_id = i} ELSE ideaElements

\* IdeaView.handleQuickAdd: the row of a thought
thoughtRow(ideaId, content) ==
    [id |-> 0, idea_id |-> ideaId, type |-> "thought", source |-> "user",
     content |-> content, metadata |-> NoMeta, is_archived |-> FALSE]

\* IdeaView.handleQuickAdd: the row of a link (content null)
articleRow(ideaId, content) ==
    [id |-> 0, idea_id |-> ideaId, type |-> "article", source |-> "user",
     content |-> "",
     metadata |-> [NoMeta EXCEPT !.url = withScheme(content),
                                 !.domain = getDomain(content)],
     is_archived |-> FALSE]

\* The files the user picks: an image and a PDF.
Files ==
    { [name |-> "a.png", type |-> "image/png"],
      [name |-> "b.pdf", type |-> "application/pdf"] }

\* IdeaView.uploadFile: the row of an uploaded file
fileRow(ideaId, file) ==
    LET isImage == startsWith(file.type, "image/")
        bucket == IF isImage THEN "images" ELSE "files"
    IN  [id |-> 0, idea_id |-> ideaId,
         type |-> IF isImage THEN "image" ELSE "file", source |-> "user",
         content |-> "",
         metadata |-> [NoMeta EXCEPT !.bucket = bucket,
                                     !.url = bucket \o "/" \o file.name,
                                     !.filename = file.name,
                                     !.file_type = file.type],
         is_archived |-> FALSE]

-----------------------------------------------------------------------------
(* IdeaView: the handlers that add elements to the idea *)

\* IdeaView.handleQuickAdd up to its insert: the text typed is trimmed and
\* becomes a link when it looks like a URL, a thought otherwise.
HandleQuickAdd(input) ==
    /\ ideaPage.id # 0
    /\ trim(input) # ""
    /\ pendingInsert = <<>>
    /\ pendingInsert' =
           <<IF isUrl(trim(input)) THEN articleRow(ideaPage.id, trim(input))
             ELSE thoughtRow(ideaPage.id, trim(input))>>
    /\ UNCHANGED <<uiVars, summaryVars, storageVars, ideaVars, ideaElements,
                   deletingIdea, pendingMeta, spark>>

\* IdeaView.uploadFile up to its insert: the file went to its bucket.
UploadFile(file) ==
    /\ ideaPage.id # 0
    /\ pendingInsert = <<>>
    /\ pendingInsert' = <<fileRow(ideaPage.id, file)>>
    /\ UNCHANGED <<uiVars, summaryVars, storageVars, ideaVars, ideaElements,
                   deletingIdea, pendingMeta, spark>>

\* The insert of handleQuickAdd or uploadFile, and what follows it: the
\* elements are reloaded, and for a link the metadata fetch starts.
InsertPending ==
    /\ pendingInsert # <<>>
    /\ nextElementId <= MaxElementId
    /\ LET row == pendingInsert[1]
       IN  /\ row.type = "article" => pendingMeta = <<>>
           /\ elementsTable' = insertRow(row)
           /\ ideaElements' = reloaded(insertRow(row), row.idea_id)
           /\ pendingMeta' =
                  IF row.type = "article"
                  THEN <<[id |-> nextElementId, idea_id |-> row.idea_id,
                          url |-> row.metadata.url,
                          domain |-> row.metadata.domain]>>
                  ELSE pendingMeta
    /\ nextElementId' = nextElementId + 1
    /\ pendingInsert' = <<>>
    /\ UNCHANGED <<uiVars, summaryVars, ideasTable, ideaVars, deletingIdea, spark>>

\* What /api/url-meta answers: a title and a description, or neither (which
\* is also what a failed fetch amounts to).
UrlMetas ==
    { [title |-> "Site", description |-> "About"],
      [title |-> "", description |-> ""] }

\* IdeaView.handleQuickAdd, the metadata fetch of a link: with a title or a
\* description the row's metadata is replaced and the elements are reloaded.
FetchUrlMeta(meta) ==
    /\ pendingMeta # <<>>
    /\ LET link == pendingMeta[1]
           enriched(e) ==
               [e EXCEPT !.metadata =
                   [NoMeta EXCEPT !.url = link.url, !.domain = link.domain,
                                  !.title = meta.title,
                                  !.description = meta.description]]
       IN  IF meta.title # "" \/ meta.description # ""
           THEN /\ elementsTable' = updateRow(link.id, [e \in elementsTable |-> enriched(e)])
                /\ ideaElements' =
                       reloaded(elementsTable', link.idea_id)
           ELSE UNCHANGED <<elementsTable, ideaElements>>
    /\ pendingMeta' = <<>>
    /\ UNCHANGED <<uiVars, summaryVars, ideasTable, nextElementId, ideaVars,
                   deletingIdea, pendingInsert, spark>>

-----------------------------------------------------------------------------
(* IdeaView.deleteIdea *)

\* deleteIdea confirmed, first await: the idea's elements are deleted.
DeleteIdeaElements ==
    /\ ideaPage.id # 0
    /\ deletingIdea = 0
    /\ elementsTable' = {e \in elementsTable : e.idea_id # ideaPage.id}
    /\ deletingIdea' = ideaPage.id
    /\ UNCHANGED <<uiVars, summaryVars, ideasTable, nextElementId, ideaVars,
                   ideaElements, pendingInsert, pendingMeta, spark>>

\* deleteIdea, second await: the idea's row is deleted and the browser goes
\* back to Home.
DeleteIdeaRow ==
    /\ deletingIdea # 0
    /\ ideasTable' = [ideasTable EXCEPT ![deletingIdea] = "deleted"]
    /\ deletingIdea' = 0
    /\ ideaPage' = NoIdeaPage
    /\ ideaElements' = {}
    /\ UNCHANGED <<uiVars, summaryVars, elementsTable, nextElementId, homeVars,
                   pendingInsert, pendingMeta, spark>>

-----------------------------------------------------------------------------
(* POST /api/spark *)

RegularTypes == {"synthesize", "challenge", "expand", "custom"}
MiniTypes == {"mini", "summarize", "related"}

\* the route answers: the request body is gone, the caller's closure stays
respond(req, status, success, content, error) ==
    [NoSpark EXCEPT !.pc = "done", !.caller = req.caller,
                    !.ideaId = req.ideaId, !.elId = req.elId,
                    !.elMetadata = req.elMetadata, !.enrich = req.enrich,
                    !.status = status, !.success = success,
                    !.content = content, !.error = error]

\* the access token of the user's session
AccessToken == "token"

\* supabase.auth.getUser() with the header's token: the user, "" if none
getUser(token) == IF token = AccessToken THEN "user" ELSE ""

\* authHeader.replace('Bearer ', '')
bearerToken(authHeader) == SubSeq(authHeader, Len("Bearer ") + 1, Len(authHeader))

\* the two 401 checks: the header starts with 'Bearer ' and its token names
\* a user
authenticated(req) ==
    /\ startsWith(req.authHeader, "Bearer ")
    /\ getUser(bearerToken(req.authHeader)) # ""

\* (mutant) the idea is looked up by id alone
ideaFoundAnyOwner(i) == ideasTable[i] \in {"active", "archived", "foreign"}

\* from('ideas').select('*').eq('id', ideaId).eq('user_id', user.id).single()
ideaFound(i) == ideasTable[i] \in {"active", "archived"}

\* the columns of the idea row the route reads; the user's ideas carry one
\* title, and the first of them has its current thinking written
ideaRow(i) ==
    [id |-> i, title |-> "Tiny homes",
     current_thinking |-> IF i = 1 THEN "Smaller is freer." ELSE ""]

RECURSIVE orderedByCreatedAt(_)
\* .order('created_at', { ascending: true }): rows are created in the order
\* of their ids
orderedByCreatedAt(rows) ==
    IF rows = {} THEN <<>>
    ELSE LET first == CHOOSE e \in rows : \A f \in rows : e.id <= f.id
         IN  <<first>> \o orderedByCreatedAt(rows \ {first})

\* the route's elements query: the active elements of the idea, oldest first
activeElements(i) ==
    orderedByCreatedAt({e \in elementsTable : e.idea_id = i /\ ~e.is_archived})

\* the route's own digest line of an element
digestLine(el) ==
    LET prefix == IF el.source = "ai" THEN "[Spark]" ELSE "[" \o el.type \o "]"
        c0 == IF el.metadata.title # "" THEN el.metadata.title ELSE el.content
        c1 == IF el.metadata.description # ""
              THEN c0 \o " - " \o el.metadata.description ELSE c0
        c2 == IF elUrl(el) # "" /\ c1 = "" THEN elUrl(el) ELSE c1
        c3 == IF elFilename(el) # "" /\ c2 = "" THEN elFilename(el) ELSE c2
    IN  prefix \o " " \o c3

\* (elements || []).map(...).join('\n')
digest(els) == join([i \in 1..Len(els) |-> digestLine(els[i])], "\n")

\* the route's system prompt up to the idea's title
ROUTE_PROMPT_INTRO ==
    "You are Spark, an AI provocateur helping users develop their "
        \o "thinking. You challenge, connect, and expand ideas - you are not "
        \o "a generic assistant."

\* the rules that end the route's system prompt
ROUTE_PROMPT_RULES ==
    "CRITICAL RULES:\n"
        \o "- Be concise and specific. 2-4 sentences max for standard sparks. "
        \o "1-2 sentences for mini-sparks.\n"
        \o "- NEVER say you \"cannot access URLs\" or \"cannot browse the "
        \o "internet.\" You have full context about every element the user has "
        \o "saved - their titles, descriptions, and URLs are provided above.\n"
        \o "- NEVER mention dates being in the future or question whether "
        \o "content is valid.\n"
        \o "- NEVER be generic. Always reference their specific content, "
        \o "titles, and ideas.\n"
        \o "- When asked to summarize an article element, summarize based on "
        \o "its title and description. If only a URL is available, infer the "
        \o "topic from the URL path and domain.\n"
        \o "- If a PDF or image is attached, analyze its actual content - do "
        \o "not just reference the filename.\n"
        \o "- Challenge their thinking, don't just validate it.\n"
        \o "- Use plain text only. No markdown headers, no bullet points with "
        \o "dashes. Short paragraphs or numbered points if listing.\n"
        \o "- Do not start responses with \"Based on...\" or \"Looking at...\" - "
        \o "just state your insight directly."

\* the system prompt of the standard branch
standardSystemPrompt(idea, elementsSummary) ==
    ROUTE_PROMPT_INTRO
        \o "\n\nThe user is working on an idea called \"" \o idea.title
        \o "\".\n"
        \o (IF idea.current_thinking # ""
            THEN "\nTheir current thinking:\n" \o idea.current_thinking
            ELSE "")
        \o "\n"
        \o (IF elementsSummary # ""
            THEN "\nTheir collected elements:\n" \o elementsSummary ELSE "")
        \o "\n\n" \o ROUTE_PROMPT_RULES

\* the system prompt of the drawer branch
DRAWER_SYSTEM_PROMPT ==
    "You are Spark, an AI provocateur helping users develop their "
        \o "thinking. You challenge, connect, and expand ideas - you are not "
        \o "a generic assistant.\n"
        \o "\n"
        \o "The user is reviewing an item from their Drawer - a holding area "
        \o "for thoughts, links, and files that haven't been assigned to a "
        \o "specific idea yet.\n"
        \o "\n"
        \o "CRITICAL RULES:\n"
        \o "- Be concise and specific. 1-2 sentences for mini-sparks.\n"
        \o "- NEVER say you \"cannot access URLs\" or \"cannot browse the "
        \o "internet.\" You have full context about the element provided.\n"
        \o "- NEVER mention dates being in the future or question whether "
        \o "content is valid.\n"
        \o "- When asked to summarize an article element, summarize based on "
        \o "its title and description. If only a URL is available, infer the "
        \o "topic from the URL path and domain.\n"
        \o "- If a PDF or image is attached, analyze its actual content - do "
        \o "not just reference the filename.\n"
        \o "- Use plain text only. No markdown headers, no bullet points with "
        \o "dashes.\n"
        \o "- Do not start responses with \"Based on...\" or \"Looking at...\" - "
        \o "just state your insight directly."

MAX_PDF_BYTES == 5 * 1024 * 1024
MAX_IMAGE_BYTES == 3 * 1024 * 1024

\* What fetch(attachment.url) does: it throws, answers with an error status,
\* or answers with a body of some size.
FetchResults ==
    { [outcome |-> "throws", bytes |-> 0],
      [outcome |-> "not ok", bytes |-> 0] }
    \cup { [outcome |-> "ok", bytes |-> b] :
             b \in {MAX_IMAGE_BYTES, MAX_IMAGE_BYTES + 1,
                    MAX_PDF_BYTES, MAX_PDF_BYTES + 1} }

\* the content blocks fetchAttachment returns, <<>> where it returns null;
\* the base64 data and the decoded text are not modelled
fetchAttachment(attachment, res) ==
    IF res.outcome # "ok" THEN <<>>
    ELSE IF attachment.type = "image"
    THEN IF res.bytes > MAX_IMAGE_BYTES THEN <<>>
         ELSE <<[type |-> "image",
                 media_type |-> IF attachment.file_type # ""
                                THEN attachment.file_type ELSE "image/jpeg",
                 text |-> ""]>>
    ELSE IF attachment.type = "file" /\ attachment.file_type = "application/pdf"
    THEN IF res.bytes > MAX_PDF_BYTES THEN <<>>
         ELSE <<[type |-> "document", media_type |-> "application/pdf",
                 text |-> ""]>>
    ELSE IF startsWith(attachment.file_type, "text/")
    THEN IF res.bytes > MAX_PDF_BYTES THEN <<>>
         ELSE <<[type |-> "text", media_type |-> "",
                 text |-> "[File: "
                     \o (IF attachment.filename # "" THEN attachment.filename
                         ELSE "document")
                     \o "]\n"]>>
    ELSE <<>>

\* the note appended to the user prompt; the drawer branch's note ends with
\* "available.", the standard branch's with "available above."
sizeNote(attachment, drawer) ==
    "\n[Note: The attached file \""
        \o (IF attachment.filename # "" THEN attachment.filename ELSE "file")
        \o "\" could not be loaded for analysis. Work with whatever context"
        \o " is available" \o (IF drawer THEN "" ELSE " above") \o ".]"

\* a text block
textBlock(text) == [type |-> "text", media_type |-> "", text |-> text]

\* (mutant) the request is answered without the attachment's note
messageContentNoNote(req, prompt, drawer, res) ==
    IF Len(req.attachment) = 0 THEN <<textBlock(prompt)>>
    ELSE fetchAttachment(req.attachment[1], res) \o <<textBlock(prompt)>>

\* the content of the user message, `res` being what the attachment's fetch
\* does
messageContent(req, prompt, drawer, res) ==
    IF Len(req.attachment) = 0 THEN <<textBlock(prompt)>>
    ELSE LET attachmentBlocks == fetchAttachment(req.attachment[1], res)
         IN  IF Len(attachmentBlocks) > 0
             THEN attachmentBlocks \o <<textBlock(prompt)>>
             ELSE <<textBlock(prompt \o sizeNote(req.attachment[1], drawer))>>

\* what the fetch did, for a request that has an attachment
fetchedBy(req, res) == IF Len(req.attachment) = 0 THEN <<>> ELSE <<res>>

\* the prompt of the switch's default branch
GenericPrompt == "What do you think about my idea so far?"

\* customPrompt || 'What do you think about this?' of the drawer branch
drawerUserPrompt(req) ==
    IF req.customPrompt # "" THEN req.customPrompt
    ELSE "What do you think about this?"

\* (mutant) the default branch leaves userPrompt as it was declared
userPromptNoDefault(req) ==
    IF req.sparkType = "synthesize"
    THEN "Look across all my elements and current thinking. What patterns or"
             \o " connections do you see? Synthesize the key threads into a"
             \o " coherent insight."
    ELSE IF req.sparkType = "challenge"
    THEN "Challenge my current thinking. What assumptions am I making? What"
             \o " am I missing? Push back on something specific."
    ELSE IF req.sparkType = "expand"
    THEN "Based on what I have so far, what adjacent territory should I"
             \o " explore? Suggest a specific direction I haven't"
             \o " considered."
    ELSE IF req.sparkType \in {"custom", "mini", "summarize", "related"}
    THEN IF req.customPrompt # "" THEN req.customPrompt ELSE GenericPrompt
    ELSE ""

\* switch (sparkType) of the standard branch: its own text for synthesize,
\* challenge and expand, the custom prompt or the generic one for custom and
\* the mini types, the generic one for anything else.
userPrompt(req) ==
    IF req.sparkType = "synthesize"
    THEN "Look across all my elements and current thinking. What patterns or"
             \o " connections do you see? Synthesize the key threads into a"
             \o " coherent insight."
    ELSE IF req.sparkType = "challenge"
    THEN "Challenge my current thinking. What assumptions am I making? What"
             \o " am I missing? Push back on something specific."
    ELSE IF req.sparkType = "expand"
    THEN "Based on what I have so far, what adjacent territory should I"
             \o " explore? Suggest a specific direction I haven't"
             \o " considered."
    ELSE IF req.sparkType \in {"custom", "mini", "summarize", "related"}
    THEN IF req.customPrompt # "" THEN req.customPrompt ELSE GenericPrompt
    ELSE GenericPrompt

\* The route up to its call of the LLM: 401 without a user, the drawer branch
\* for a mini type in drawer mode, else 400 without ideaId and 404 when the
\* idea is not found, else the elements are loaded, the system prompt is
\* built and the user prompt is selected by the type; `res` is what the
\* fetch of the attachment does.
received(req, res) ==
    IF ~authenticated(req) THEN respond(req, 401, FALSE, "", "Unauthorized")
    ELSE IF req.drawerMode /\ req.sparkType \in MiniTypes
         THEN [req EXCEPT !.pc = "llm",
                          !.systemPrompt = DRAWER_SYSTEM_PROMPT,
                          !.userPrompt = drawerUserPrompt(req),
                          !.fetched = fetchedBy(req, res),
                          !.messageContent =
                              messageContent(req, drawerUserPrompt(req),
                                             TRUE, res)]
    ELSE IF req.ideaId = 0
         THEN respond(req, 400, FALSE, "", "ideaId is required")
    ELSE IF ~ideaFound(req.ideaId)
         THEN respond(req, 404, FALSE, "", "Idea not found")
    ELSE [req EXCEPT !.pc = "llm",
                     !.loaded = activeElements(req.ideaId),
                     !.elementsSummary = digest(activeElements(req.ideaId)),
                     !.systemPrompt =
                         standardSystemPrompt(
                             ideaRow(req.ideaId),
                             digest(activeElements(req.ideaId))),
                     !.userPrompt = userPrompt(req),
                     !.fetched = fetchedBy(req, res),
                     !.messageContent =
                         messageContent(req, userPrompt(req), FALSE, res)]

\* A request reaches the route.
\* the fetches a request can lead to: none without an attachment
fetchesOf(req) ==
    IF Len(req.attachment) = 0 THEN {[outcome |-> "none", bytes |-> 0]}
    ELSE FetchResults

Post(req) ==
    /\ spark.pc = "idle"
    /\ \E res \in fetchesOf(req) : spark' = received(req, res)
    /\ UNCHANGED <<uiVars, summaryVars, storageVars, ideaVars, ideaElements,
                   deletingIdea, pendingInsert, pendingMeta>>

\* The content arrays the LLM answers with: a text block first, another kind
\* of block first, no block at all.
LlmResponses ==
    { <<[type |-> "text", text |-> "Insight"]>>,
      <<[type |-> "tool_use", text |-> ""]>>,
      <<>> }

\* response.content[0].type === 'text' ? response.content[0].text : ''
responseText(response) ==
    IF response[1].type = "text" THEN response[1].text ELSE ""

\* the element a regular spark becomes
sparkRow(req, content) ==
    [id |-> 0, idea_id |-> req.ideaId, type |-> "spark", source |-> "ai",
     content |-> content,
     metadata |->
         [NoMeta EXCEPT
              !.spark_type =
                  IF req.sparkType = "custom" THEN "custom" ELSE req.sparkType,
              !.prompt =
                  IF req.sparkType = "custom" THEN req.customPrompt ELSE ""],
     is_archived |-> FALSE]

\* (mutant) a mini type's answer is stored as an element too
storesNothingNever(req) == FALSE

\* the answer is returned without being stored: the drawer branch and the
\* mini types of the standard branch
storesNothing(req) == req.sparkType \in MiniTypes

\* (mutant) a failed LLM call is answered like an empty success
failureResponseOk(req) == respond(req, 200, FALSE, "", "")

\* the catch block of either branch
failureResponse(req) == respond(req, 500, FALSE, "", "AI request failed")

\* anthropic.messages.create throws.
LlmCallThrows ==
    /\ spark.pc = "llm"
    /\ spark' = failureResponse(spark)
    /\ UNCHANGED <<uiVars, summaryVars, storageVars, ideaVars, ideaElements,
                   deletingIdea, pendingInsert, pendingMeta>>

\* anthropic.messages.create returns: reading content[0] of an empty array
\* throws into the catch block; a mini type returns the text; a regular type
\* inserts the spark element and returns the text, or 500 with the insert's
\* error.
LlmCallReturns(response, insertOk) ==
    /\ spark.pc = "llm"
    /\ IF Len(response) = 0
       THEN /\ spark' = failureResponse(spark)
            /\ UNCHANGED storageVars
       ELSE IF storesNothing(spark)
       THEN /\ spark' = respond(spark, 200, FALSE, responseText(response), "")
            /\ UNCHANGED storageVars
       ELSE IF insertOk
       THEN /\ nextElementId <= MaxElementId
            /\ elementsTable' =
                   insertRow(sparkRow(spark, responseText(response)))
            /\ nextElementId' = nextElementId + 1
            /\ spark' = respond(spark, 200, TRUE, responseText(response), "")
            /\ UNCHANGED ideasTable
       ELSE /\ spark' = respond(spark, 500, FALSE, "", "insert failed")
            /\ UNCHANGED storageVars
    /\ UNCHANGED <<uiVars, summaryVars, ideaVars, ideaElements, deletingIdea,
                   pendingInsert, pendingMeta>>

\* res.ok
ok(res) == res.status >= 200 /\ res.status <= 299

-----------------------------------------------------------------------------
(* The handlers that call /api/spark *)

\* The spark buttons of the idea page and the custom prompt.
SparkButtons ==
    { [type |-> "synthesize", prompt |-> ""],
      [type |-> "challenge", prompt |-> ""],
      [type |-> "expand", prompt |-> ""],
      [type |-> "custom", prompt |-> "Why?"] }

\* IdeaView.fireSpark: the request is sent with the page's idea.
FireSpark(button) ==
    /\ ideaPage.id # 0
    /\ Post([NoSpark EXCEPT !.caller = "fireSpark", !.authHeader = "Bearer " \o AccessToken,
                            !.ideaId = ideaPage.id,
                            !.sparkType = button.type,
                            !.customPrompt = button.prompt])

\* IdeaView.fireSpark, the response: the elements are reloaded when res.ok.
FireSparkResponse ==
    /\ spark.pc = "done"
    /\ spark.caller = "fireSpark"
    /\ ideaElements' =
           IF ok(spark) THEN reloaded(elementsTable, spark.ideaId)
           ELSE ideaElements
    /\ spark' = NoSpark
    /\ UNCHANGED <<uiVars, summaryVars, storageVars, ideaVars, deletingIdea,
                   pendingInsert, pendingMeta>>

\* requestBody.attachment: files and images that have a url are attached
attachmentOf(el) ==
    IF el.type \in {"file", "image"} /\ elUrl(el) # ""
    THEN <<[url |-> elUrl(el),
            type |-> IF el.type = "image" THEN "image" ELSE "file",
            file_type |-> el.metadata.file_type,
            filename |-> elFilename(el)]>>
    ELSE <<>>

\* Summarize is offered on an element that is not the AI's and has no
\* summary yet
offersSummarize(el) == el.source # "ai" /\ el.metadata.summary = ""

\* IdeaView.fireMiniSpark(el, 'summarize'): a request of type mini for the
\* page's idea; the element as the page holds it stays in the closure.
FireMiniSpark(el) ==
    /\ ideaPage.id # 0
    /\ el \in ideaElements
    /\ ~el.is_archived
    /\ offersSummarize(el)
    /\ Post([NoSpark EXCEPT !.caller = "fireMiniSpark", !.authHeader = "Bearer " \o AccessToken,
                            !.ideaId = ideaPage.id, !.sparkType = "mini",
                            !.customPrompt = "Summarize",
                            !.attachment = attachmentOf(el),
                            !.elId = el.id, !.elMetadata = el.metadata,
                            !.enrich = "summary"])

\* (mutant) only the answer is written
enrichedMetadataAnswerOnly(res) ==
    IF res.enrich = "summary"
    THEN [NoMeta EXCEPT !.summary = res.content]
    ELSE [NoMeta EXCEPT !.related = res.content]

\* the metadata a mini-spark writes back: the closure's copy plus the answer
enrichedMetadata(res) ==
    IF res.enrich = "summary"
    THEN [res.elMetadata EXCEPT !.summary = res.content]
    ELSE [res.elMetadata EXCEPT !.related = res.content]

\* the row with the mini-spark's metadata
enrichedRow(e) == [e EXCEPT !.metadata = enrichedMetadata(spark)]

\* IdeaView.fireMiniSpark, the response: when res.ok the answer is written
\* into the element's metadata and the elements are reloaded.
FireMiniSparkResponse ==
    /\ spark.pc = "done"
    /\ spark.caller = "fireMiniSpark"
    /\ IF ok(spark)
       THEN /\ elementsTable' = updateRow(spark.elId, [e \in elementsTable |-> enrichedRow(e)])
            /\ ideaElements' =
                   reloaded(elementsTable', spark.ideaId)
       ELSE UNCHANGED <<elementsTable, ideaElements>>
    /\ spark' = NoSpark
    /\ UNCHANGED <<uiVars, summaryVars, ideasTable, nextElementId, ideaVars,
                   deletingIdea, pendingInsert, pendingMeta>>

\* The Authorization headers: none, not a Bearer one, a token that names no
\* user, the user's token.
AuthHeaders == {"", "Basic " \o AccessToken, "Bearer expired", "Bearer " \o AccessToken}

\* The attachments of a request body: a PNG image, a PDF, a text file
\* without filename, an archive.
Attachments ==
    { <<[url |-> "https://f/a.png", type |-> "image",
         file_type |-> "image/png", filename |-> "a.png"]>>,
      <<[url |-> "https://f/f.pdf", type |-> "file",
         file_type |-> "application/pdf", filename |-> "f.pdf"]>>,
      <<[url |-> "https://f/t", type |-> "file",
         file_type |-> "text/plain", filename |-> ""]>>,
      <<[url |-> "https://f/z.zip", type |-> "file",
         file_type |-> "application/zip", filename |-> "z.zip"]>> }

\* Any other client of the endpoint: the header may name no user, the body
\* may lack ideaId or name an idea that is not there, and carry any type, a
\* type the route does not know or no type at all; or it asks for a summary
\* with an attachment, in either branch.
OtherRequests ==
    { [NoSpark EXCEPT !.caller = "other", !.authHeader = h, !.ideaId = i,
                      !.sparkType = t, !.drawerMode = d]
        : h \in AuthHeaders, i \in 0..2, d \in BOOLEAN,
          t \in {"summarize", "related", "so-what", ""} }
    \cup
    { [NoSpark EXCEPT !.caller = "other",
                      !.authHeader = "Bearer " \o AccessToken, !.ideaId = 1,
                      !.sparkType = "summarize", !.drawerMode = d,
                      !.attachment = a]
        : d \in BOOLEAN, a \in Attachments }

\* Another client sends a request.
OtherPost(req) == Post(req)

\* Another client gets its response.
OtherResponse ==
    /\ spark.pc = "done"
    /\ spark.caller = "other"
    /\ spark' = NoSpark
    /\ UNCHANGED <<uiVars, summaryVars, storageVars, ideaVars, ideaElements,
                   deletingIdea, pendingInsert, pendingMeta>>

-----------------------------------------------------------------------------
(* The pages of the elements that belong to no idea *)

\* DrawerPage.loadDrawer
loadDrawer ==
    {e \in elementsTable :
        e.idea_id = 0 /\ ~e.is_archived /\ e.metadata.drawer = "true"}

\* JotsPage.loadJots
loadJots == {e \in elementsTable : e.idea_id = 0 /\ ~e.is_archived}

\* InboxPage.loadInbox
loadInbox ==
    {e \in elementsTable :
        e.idea_id = 0 /\ ~e.is_archived /\ e.metadata.drawer # "true"}

\* the row of a quick add on the Drawer (drawer TRUE) or Jots page
unassignedRow(content, drawer) ==
    [id |-> 0, idea_id |-> 0,
     type |-> IF isUrl(content) THEN "article" ELSE "thought",
     source |-> "user", content |-> content,
     metadata |->
         [NoMeta EXCEPT !.url = IF isUrl(content) THEN content ELSE "",
                        !.drawer = IF drawer THEN "true" ELSE ""],
     is_archived |-> FALSE]

\* DrawerPage.handleQuickAdd
DrawerQuickAdd(input) ==
    /\ trim(input) # ""
    /\ nextElementId <= MaxElementId
    /\ elementsTable' = insertRow(unassignedRow(trim(input), TRUE))
    /\ nextElementId' = nextElementId + 1
    /\ UNCHANGED <<uiVars, summaryVars, ideasTable, ideaVars, ideaElements,
                   flightVars>>

\* JotsPage.handleQuickAdd
JotsQuickAdd(input) ==
    /\ trim(input) # ""
    /\ nextElementId <= MaxElementId
    /\ elementsTable' = insertRow(unassignedRow(trim(input), FALSE))
    /\ nextElementId' = nextElementId + 1
    /\ UNCHANGED <<uiVars, summaryVars, ideasTable, ideaVars, ideaElements,
                   flightVars>>

\* DrawerPage.fireMiniSpark(el, type): a request of type mini in drawer mode.
DrawerFireMiniSpark(el, type) ==
    /\ el \in loadDrawer
    /\ el.source # "ai"
    /\ IF type = "summarize" THEN el.metadata.summary = ""
       ELSE el.metadata.related = ""
    /\ Post([NoSpark EXCEPT !.caller = "drawerMiniSpark",
                            !.authHeader = "Bearer " \o AccessToken, !.sparkType = "mini",
                            !.customPrompt = type, !.drawerMode = TRUE,
                            !.attachment = attachmentOf(el),
                            !.elId = el.id, !.elMetadata = el.metadata,
                            !.enrich = IF type = "summarize" THEN "summary"
                                       ELSE "related"])

\* JotsPage.fireMiniSpark(el): the same request, always to summarize.
JotsFireMiniSpark(el) ==
    /\ el \in loadJots
    /\ (el.source # "ai" \/ el.type = "scout")
    /\ el.metadata.summary = ""
    /\ Post([NoSpark EXCEPT !.caller = "drawerMiniSpark",
                            !.authHeader = "Bearer " \o AccessToken, !.sparkType = "mini",
                            !.customPrompt = "summarize", !.drawerMode = TRUE,
                            !.attachment = attachmentOf(el),
                            !.elId = el.id, !.elMetadata = el.metadata,
                            !.enrich = "summary"])

\* DrawerPage.fireMiniSpark and JotsPage.fireMiniSpark, the response: when
\* res.ok the answer is written into the element's metadata.
DrawerMiniSparkResponse ==
    /\ spark.pc = "done"
    /\ spark.caller = "drawerMiniSpark"
    /\ elementsTable' =
           IF ok(spark) THEN updateRow(spark.elId, [e \in elementsTable |-> enrichedRow(e)])
           ELSE elementsTable
    /\ spark' = NoSpark
    /\ UNCHANGED <<uiVars, summaryVars, ideasTable, nextElementId, ideaVars,
                   ideaElements, deletingIdea, pendingInsert, pendingMeta>>

-----------------------------------------------------------------------------
(* Spec: the /api/spark route and its callers *)

\* the id of the idea that belongs to another user
ForeignIdeaId == 2

\* the element of the other user's idea
ForeignElement ==
    [id |-> 0, idea_id |-> ForeignIdeaId, type |-> "thought",
     source |-> "user", content |-> "not yours", metadata |-> NoMeta,
     is_archived |-> FALSE]

\* The user has one idea and no element yet; another user has an idea with
\* one element ("foreign": a row the user's queries do not return).
Init ==
    /\ SummaryIdle
    /\ ideasTable =
           [i \in 1..MaxIdeas |->
                IF i = 1 THEN "active"
                ELSE IF i = ForeignIdeaId THEN "foreign" ELSE "none"]
    /\ elementsTable = {ForeignElement}
    /\ nextElementId = 1
    /\ IdeaPagesIdle

Next ==
    \/ \E i \in 1..MaxIdeas : OpenIdeaPage(i)
    \/ \E input \in QuickAddInputs : HandleQuickAdd(input)
    \/ InsertPending
    \/ \E meta \in UrlMetas : FetchUrlMeta(meta)
    \/ \E input \in QuickAddInputs : DrawerQuickAdd(input)
    \/ \E button \in SparkButtons : FireSpark(button)
    \/ \E el \in ideaElements : FireMiniSpark(el)
    \/ \E el \in loadDrawer, type \in {"summarize", "related"} :
           DrawerFireMiniSpark(el, type)
    \/ \E el \in loadJots : JotsFireMiniSpark(el)
    \/ \E req \in OtherRequests : OtherPost(req)
    \/ LlmCallThrows
    \/ \E response \in LlmResponses, insertOk \in BOOLEAN :
           LlmCallReturns(response, insertOk)
    \/ FireSparkResponse
    \/ FireMiniSparkResponse
    \/ DrawerMiniSparkResponse
    \/ OtherResponse

Spec == Init /\ [][Next]_vars

-----------------------------------------------------------------------------
(* DeleteSpec: deleteIdea next to the handlers that add elements *)

DeleteNext ==
    \/ \E i \in 1..MaxIdeas : OpenIdeaPage(i)
    \/ \E input \in QuickAddInputs : HandleQuickAdd(input)
    \/ \E file \in Files : UploadFile(file)
    \/ InsertPending
    \/ \E meta \in UrlMetas : FetchUrlMeta(meta)
    \/ \E button \in SparkButtons : FireSpark(button)
    \/ LlmCallThrows
    \/ \E response \in LlmResponses, insertOk \in BOOLEAN :
           LlmCallReturns(response, insertOk)
    \/ FireSparkResponse
    \/ DeleteIdeaElements
    \/ DeleteIdeaRow

DeleteSpec == Init /\ [][DeleteNext]_vars

\* C2: once a confirmed deleteIdea has completed, the idea's row is gone and
\* no element with its idea_id is in storage.
C2_DeleteCascades ==
    \A i \in 1..MaxIdeas :
        ideasTable[i] = "deleted"
            => ~\E e \in elementsTable : e.idea_id = i

-----------------------------------------------------------------------------
(* The handlers that act on an existing element *)

\* What the user types into a note editor and into a content editor.
NoteDrafts == {"", " a note "}
ContentDrafts == {"  ", " edited "}

\* saveNote: the page's copy of the metadata with the trimmed note, or
\* without a note when the draft is blank
notedRow(el, draft, e) ==
    [e EXCEPT !.metadata = [el.metadata EXCEPT !.note = trim(draft)]]

\* saveContent: update({ content: contentDraft.trim() })
editedRow(draft, e) == [e EXCEPT !.content = trim(draft)]

\* (mutant) Edit is offered on every element
offersEditAlways(el) == TRUE

\* Edit, the only way into the content editor, is offered on the user's
\* thoughts
offersEdit(el) == el.type = "thought" /\ el.source = "user"

\* IdeaView.saveNote(el)
SaveNote(el, draft) ==
    /\ el \in ideaElements
    /\ ~el.is_archived
    /\ LET noted(e) == notedRow(el, draft, e)
       IN  /\ elementsTable' = updateRow(el.id, [e \in elementsTable |-> noted(e)])
           /\ ideaElements' = reloaded(elementsTable', el.idea_id)
    /\ UNCHANGED <<uiVars, summaryVars, ideasTable, nextElementId, ideaVars,
                   flightVars>>

\* IdeaView.saveContent(el): nothing is saved for a blank draft.
SaveContent(el, draft) ==
    /\ el \in ideaElements
    /\ ~el.is_archived
    /\ offersEdit(el)
    /\ trim(draft) # ""
    /\ LET edited(e) == editedRow(draft, e)
       IN  /\ elementsTable' = updateRow(el.id, [e \in elementsTable |-> edited(e)])
           /\ ideaElements' = reloaded(elementsTable', el.idea_id)
    /\ UNCHANGED <<uiVars, summaryVars, ideasTable, nextElementId, ideaVars,
                   flightVars>>

\* IdeaView.archiveElement(el)
ArchiveElement(el) ==
    /\ el \in ideaElements
    /\ ~el.is_archived
    /\ LET archived(e) == [e EXCEPT !.is_archived = TRUE]
       IN  /\ elementsTable' = updateRow(el.id, [e \in elementsTable |-> archived(e)])
           /\ ideaElements' = reloaded(elementsTable', el.idea_id)
    /\ UNCHANGED <<uiVars, summaryVars, ideasTable, nextElementId, ideaVars,
                   flightVars>>

\* IdeaView.unarchiveElement(el)
UnarchiveElement(el) ==
    /\ el \in ideaElements
    /\ el.is_archived
    /\ LET restored(e) == [e EXCEPT !.is_archived = FALSE]
       IN  /\ elementsTable' = updateRow(el.id, [e \in elementsTable |-> restored(e)])
           /\ ideaElements' = reloaded(elementsTable', el.idea_id)
    /\ UNCHANGED <<uiVars, summaryVars, ideasTable, nextElementId, ideaVars,
                   flightVars>>

\* the table without the row of that id
withoutRow(id) == {e \in elementsTable : e.id # id}

\* IdeaView.deleteElement(el), confirmed
DeleteElement(el) ==
    /\ el \in ideaElements
    /\ elementsTable' = withoutRow(el.id)
    /\ ideaElements' = reloaded(withoutRow(el.id), el.idea_id)
    /\ UNCHANGED <<uiVars, summaryVars, ideasTable, nextElementId, ideaVars,
                   flightVars>>

\* a handler of a page of unassigned elements leaves `rows` in the table
Unassigned(rows) ==
    /\ elementsTable' = rows
    /\ UNCHANGED <<uiVars, summaryVars, ideasTable, nextElementId, ideaVars,
                   ideaElements, flightVars>>

\* DrawerPage.saveNote(el)
DrawerSaveNote(el, draft) ==
    /\ el \in loadDrawer
    /\ LET noted(e) == notedRow(el, draft, e)
       IN  Unassigned(updateRow(el.id, [e \in elementsTable |-> noted(e)]))

\* DrawerPage.saveContent(el)
DrawerSaveContent(el, draft) ==
    /\ el \in loadDrawer
    /\ offersEdit(el)
    /\ trim(draft) # ""
    /\ LET edited(e) == editedRow(draft, e)
       IN  Unassigned(updateRow(el.id, [e \in elementsTable |-> edited(e)]))

\* the ideas a page of unassigned elements offers: its loadIdeas
loadIdeas == ActiveIdeas

\* DrawerPage.sendToIdea: the element moves to the idea and loses its drawer
\* flag.
DrawerSendToIdea(el, ideaId) ==
    /\ el \in loadDrawer
    /\ ideaId \in loadIdeas
    /\ LET sent(e) ==
               [e EXCEPT !.idea_id = ideaId,
                         !.metadata = [el.metadata EXCEPT !.drawer = ""]]
       IN  Unassigned(updateRow(el.id, [e \in elementsTable |-> sent(e)]))

\* DrawerPage.deleteElement
DrawerDeleteElement(el) ==
    /\ el \in loadDrawer
    /\ Unassigned(withoutRow(el.id))

\* JotsPage.saveNote(el)
JotsSaveNote(el, draft) ==
    /\ el \in loadJots
    /\ LET noted(e) == notedRow(el, draft, e)
       IN  Unassigned(updateRow(el.id, [e \in elementsTable |-> noted(e)]))

\* JotsPage.saveContent(el)
JotsSaveContent(el, draft) ==
    /\ el \in loadJots
    /\ offersEdit(el)
    /\ trim(draft) # ""
    /\ LET edited(e) == editedRow(draft, e)
       IN  Unassigned(updateRow(el.id, [e \in elementsTable |-> edited(e)]))

\* JotsPage.sendToIdea: only idea_id is written.
JotsSendToIdea(el, ideaId) ==
    /\ el \in loadJots
    /\ ideaId \in loadIdeas
    /\ LET sent(e) == [e EXCEPT !.idea_id = ideaId]
       IN  Unassigned(updateRow(el.id, [e \in elementsTable |-> sent(e)]))

\* JotsPage.deleteElement
JotsDeleteElement(el) ==
    /\ el \in loadJots
    /\ Unassigned(withoutRow(el.id))

\* InboxPage.sendToIdea
InboxSendToIdea(el, ideaId) ==
    /\ el \in loadInbox
    /\ ideaId \in loadIdeas
    /\ LET sent(e) == [e EXCEPT !.idea_id = ideaId]
       IN  Unassigned(updateRow(el.id, [e \in elementsTable |-> sent(e)]))

\* InboxPage.moveToDrawer: the drawer flag is set.
MoveToDrawer(el) ==
    /\ el \in loadInbox
    /\ LET moved(e) ==
               [e EXCEPT !.metadata = [el.metadata EXCEPT !.drawer = "true"]]
       IN  Unassigned(updateRow(el.id, [e \in elementsTable |-> moved(e)]))

\* InboxPage.deleteElement
InboxDeleteElement(el) ==
    /\ el \in loadInbox
    /\ Unassigned(withoutRow(el.id))

-----------------------------------------------------------------------------
(* PageSpec: the idea, drawer, jots and inbox pages.  Of the mini-sparks    *)
(* the idea page's is here; those of the drawer and jots pages are in Spec.  *)

PageNext ==
    \/ \E i \in 1..MaxIdeas : OpenIdeaPage(i)
    \/ \E input \in QuickAddInputs : HandleQuickAdd(input)
    \/ InsertPending
    \/ \E meta \in UrlMetas : FetchUrlMeta(meta)
    \/ \E input \in QuickAddInputs : DrawerQuickAdd(input)
    \/ \E input \in QuickAddInputs : JotsQuickAdd(input)
    \/ \E el \in ideaElements, draft \in NoteDrafts : SaveNote(el, draft)
    \/ \E el \in ideaElements, draft \in ContentDrafts :
           SaveContent(el, draft)
    \/ \E el \in ideaElements : ArchiveElement(el)
    \/ \E el \in ideaElements : UnarchiveElement(el)
    \/ \E el \in ideaElements : DeleteElement(el)
    \/ \E el \in ideaElements : FireMiniSpark(el)
    \/ \E el \in loadDrawer, draft \in NoteDrafts : DrawerSaveNote(el, draft)
    \/ \E el \in loadDrawer, draft \in ContentDrafts :
           DrawerSaveContent(el, draft)
    \/ \E el \in loadDrawer, ideaId \in loadIdeas :
           DrawerSendToIdea(el, ideaId)
    \/ \E el \in loadDrawer : DrawerDeleteElement(el)
    \/ \E el \in loadJots, draft \in NoteDrafts : JotsSaveNote(el, draft)
    \/ \E el \in loadJots, draft \in ContentDrafts : JotsSaveContent(el, draft)
    \/ \E el \in loadJots, ideaId \in loadIdeas : JotsSendToIdea(el, ideaId)
    \/ \E el \in loadJots : JotsDeleteElement(el)
    \/ \E el \in loadInbox, ideaId \in loadIdeas : InboxSendToIdea(el, ideaId)
    \/ \E el \in loadInbox : MoveToDrawer(el)
    \/ \E el \in loadInbox : InboxDeleteElement(el)
    \/ LlmCallThrows
    \/ \E response \in LlmResponses, insertOk \in BOOLEAN :
           LlmCallReturns(response, insertOk)
    \/ FireMiniSparkResponse

PageSpec == Init /\ [][PageNext]_vars

-----------------------------------------------------------------------------
(* TopicsSpec: ScoutsPage.toggleInterest *)

\* The largest number of toggleInterest calls.
MaxToggles == 7

\* the ids of INTEREST_OPTIONS
INTEREST_OPTIONS ==
    {"technology", "science", "work_creativity", "relationships",
     "cities_spaces", "health", "culture", "business"}

\* the most topics that can be selected
MAX_INTERESTS == 5
\* the fewest topics that can be left selected
MIN_INTERESTS == 1

\* (mutant) a sixth topic is accepted
toggleRefusedAboveFive(current, id) ==
    IF id \in current THEN Cardinality(current) <= MIN_INTERESTS
    ELSE Cardinality(current) > MAX_INTERESTS

\* the two early returns of toggleInterest
toggleRefused(current, id) ==
    IF id \in current THEN Cardinality(current) <= MIN_INTERESTS
    ELSE Cardinality(current) >= MAX_INTERESTS

\* newInterests: the topic is filtered out, or appended
newInterests(current, id) ==
    IF id \in current THEN current \ {id} ELSE current \cup {id}

\* toggleInterest(id), and the saveInterests it calls: the upsert writes the
\* new list unless getSession returns no user.  The order of the list is not
\* modelled.
ToggleInterest(id, hasSession) ==
    /\ toggleCalls < MaxToggles
    /\ toggled' = id
    /\ toggleCalls' = toggleCalls + 1
    /\ IF toggleRefused(interests, id)
       THEN UNCHANGED <<interests, scoutInterests, saveCalls>>
       ELSE /\ interests' = newInterests(interests, id)
            /\ saveCalls' = saveCalls + 1
            /\ scoutInterests' =
                   IF hasSession THEN newInterests(interests, id)
                   ELSE scoutInterests
    /\ UNCHANGED <<coreVars, toastVars, scoutVars, busyVars>>

TopicsInit ==
    /\ SummaryIdle
    /\ StorageEmpty
    /\ IdeaPagesIdle

TopicsNext ==
    \E id \in INTEREST_OPTIONS, hasSession \in BOOLEAN :
        ToggleInterest(id, hasSession)

TopicsSpec == TopicsInit /\ [][TopicsNext]_vars

-----------------------------------------------------------------------------
(* showToast of the Home and Scouts pages *)

\* The largest number of showToast calls.
MaxToasts == 12

\* (mutant) the pending timer is left running
showToastKeepTimer(message) ==
    /\ toast' = message
    /\ toastTimers' = toastTimers \cup {toastCalls + 1}
    /\ toastTimer' = toastCalls + 1
    /\ toastCalls' = toastCalls + 1
    /\ lastToast' = message

\* showToast(message): the pending timer is cleared, the message is shown
\* and a new timer is set; timers get the ids 1, 2, ...
showToast(message) ==
    /\ toast' = message
    /\ toastTimers' = (toastTimers \ {toastTimer}) \cup {toastCalls + 1}
    /\ toastTimer' = toastCalls + 1
    /\ toastCalls' = toastCalls + 1
    /\ lastToast' = message

\* The callback of a timer runs after 2200 ms: setToast(null).
ToastTimerFires(id) ==
    /\ id \in toastTimers
    /\ toast' = ""
    /\ toastTimers' = toastTimers \ {id}
    /\ UNCHANGED <<toastTimer, toastCalls, lastToast, coreVars, topicsVars,
                   scoutVars, busyVars>>

\* The messages of the two pages' showToast calls.
ToastMessages ==
    { "Upload failed", "Added to Jots", "Added to Tiny homes",
      "Already saved to Jots", "Not logged in", "Failed to save: error",
      "Saved to Jots", "Failed to create idea", "Idea \"Tiny homes\" created!" }

\* A handler of the page calls showToast(message).
ShowToast(message) ==
    /\ toastCalls < MaxToasts
    /\ showToast(message)
    /\ UNCHANGED <<coreVars, topicsVars, scoutVars, busyVars>>

ToastNext ==
    \/ \E message \in ToastMessages : ShowToast(message)
    \/ \E id \in 1..MaxToasts : ToastTimerFires(id)

ToastSpec == TopicsInit /\ [][ToastNext]_vars

\* A timer that is set and not cleared fires after its 2200 ms.
ToastLiveSpec ==
    ToastSpec /\ WF_vars(\E id \in 1..MaxToasts : ToastTimerFires(id))

-----------------------------------------------------------------------------
(* ScoutsSpec: expandScout, goDeeper and saveToJots on one scout *)

\* The largest number of saveToJots calls.
MaxSaveToJots == 2

\* the ids of DEEPER_LENSES
DEEPER_LENSES == {"contrarian", "who", "why_now", "tension", "sources"}

\* the lens ids of a scout's deeper results
usedLensIds(scout) ==
    {scout.deeperResults[i] : i \in 1..Len(scout.deeperResults)}

\* getAvailableLenses(), `scout` being the expanded scout
getAvailableLenses(scout) == DEEPER_LENSES \ usedLensIds(scout)

\* What the awaited calls of the handlers do: there is no session, the call
\* succeeds, or it fails (an error status, an exception, an insert error).
CallOutcomes == {"no session", "ok", "failed"}

\* expandScout(scout), a click on the scout's card: a scout expanded before
\* is shown at once, otherwise the expansion is requested.
ExpandScout ==
    /\ expandedScout = <<>>
    /\ expandingId = <<>>
    /\ IF scouts.expanded
       THEN expandedScout' = <<scouts>> /\ UNCHANGED expandingId
       ELSE expandingId' = <<scouts>> /\ UNCHANGED expandedScout
    /\ UNCHANGED <<scouts, showLenses, deepeningLens, deepening, saving,
                   saveToJotsCalls, jotsInserted, usedLenses, coreVars,
                   topicsVars, toastVars, busyVars>>

\* expandScout after its awaits: with res.ok the scout of the call, expanded,
\* replaces the list's entry and is shown.
ExpandScoutReturns(outcome) ==
    /\ expandingId # <<>>
    /\ expandingId' = <<>>
    /\ IF outcome = "ok"
       THEN /\ scouts' = [expandingId[1] EXCEPT !.expanded = TRUE]
            /\ expandedScout' = <<scouts'>>
       ELSE UNCHANGED <<scouts, expandedScout>>
    /\ UNCHANGED <<showLenses, deepeningLens, deepening, saving,
                   saveToJotsCalls, jotsInserted, usedLenses, coreVars,
                   topicsVars, toastVars, busyVars>>

\* closeExpanded: back to the list.
CloseExpanded ==
    /\ expandedScout # <<>>
    /\ expandedScout' = <<>>
    /\ showLenses' = FALSE
    /\ UNCHANGED <<scouts, expandingId, deepeningLens, deepening, saving,
                   saveToJotsCalls, jotsInserted, usedLenses, coreVars,
                   topicsVars, toastVars, busyVars>>

\* The Go deeper button: shown while a lens is left, the picker is closed
\* and no goDeeper is in flight.
ShowLenses ==
    /\ expandedScout # <<>>
    /\ getAvailableLenses(expandedScout[1]) # {}
    /\ ~showLenses
    /\ deepeningLens = ""
    /\ showLenses' = TRUE
    /\ UNCHANGED <<scouts, expandedScout, expandingId, deepeningLens,
                   deepening, saving, saveToJotsCalls, jotsInserted,
                   usedLenses, coreVars, topicsVars, toastVars, busyVars>>

\* goDeeper(lens), a click on a lens of the picker (its buttons are disabled
\* while deepeningLens is set): the call keeps the expandedScout it was
\* rendered with.
GoDeeper(lens) ==
    /\ expandedScout # <<>>
    /\ showLenses
    /\ lens \in getAvailableLenses(expandedScout[1])
    /\ deepeningLens = ""
    /\ deepeningLens' = lens
    /\ showLenses' = FALSE
    /\ deepening' = Append(deepening, [lens |-> lens, scout |-> expandedScout[1]])
    /\ UNCHANGED <<scouts, expandedScout, expandingId, saving,
                   saveToJotsCalls, jotsInserted, usedLenses, coreVars,
                   topicsVars, toastVars, busyVars>>

\* goDeeper after its awaits: with res.ok the result is appended to the
\* deeper results of the call's expandedScout, which replaces the list's
\* entry and the expanded scout; deepeningLens is reset on every path.
GoDeeperReturns(outcome) ==
    /\ deepening # <<>>
    /\ deepening' = Tail(deepening)
    /\ deepeningLens' = ""
    /\ IF outcome = "ok"
       THEN /\ scouts' =
                   [deepening[1].scout EXCEPT
                        !.deeperResults = Append(@, deepening[1].lens)]
            /\ expandedScout' = <<scouts'>>
            /\ usedLenses' = usedLenses \cup {deepening[1].lens}
       ELSE UNCHANGED <<scouts, expandedScout, usedLenses>>
    /\ UNCHANGED <<expandingId, showLenses, saving, saveToJotsCalls,
                   jotsInserted, coreVars, topicsVars, toastVars, busyVars>>

\* saveToJots, a click on Save to Jots (the button is disabled once the
\* expanded scout is marked as saved, so the 'Already saved to Jots' return
\* is not taken): the call keeps the expandedScout it was rendered with.
SaveToJots ==
    /\ expandedScout # <<>>
    /\ ~expandedScout[1].savedToJots
    /\ saveToJotsCalls < MaxSaveToJots
    /\ saveToJotsCalls' = saveToJotsCalls + 1
    /\ saving' = Append(saving, expandedScout[1])
    /\ UNCHANGED <<scouts, expandedScout, expandingId, showLenses,
                   deepeningLens, deepening, jotsInserted, usedLenses,
                   coreVars, topicsVars, toastVars, busyVars>>

\* the sequence without its i-th entry
withoutIndex(seq, i) == SubSeq(seq, 1, i - 1) \o SubSeq(seq, i + 1, Len(seq))

\* saveToJots after its awaits, for the i-th call in flight: without a
\* session and on an insert error a toast is shown; otherwise the element is
\* inserted, the call's expandedScout, marked as saved, replaces the list's
\* entry and the expanded scout, and 'Saved to Jots' is shown.
SaveToJotsReturns(i, outcome) ==
    /\ i \in 1..Len(saving)
    /\ saving' = withoutIndex(saving, i)
    /\ IF outcome = "no session"
       THEN /\ showToast("Not logged in")
            /\ UNCHANGED <<scouts, expandedScout, jotsInserted>>
       ELSE IF outcome = "failed"
       THEN /\ showToast("Failed to save: error")
            /\ UNCHANGED <<scouts, expandedScout, jotsInserted>>
       ELSE /\ jotsInserted' = jotsInserted + 1
            /\ scouts' = [saving[i] EXCEPT !.savedToJots = TRUE]
            /\ expandedScout' = <<scouts'>>
            /\ showToast("Saved to Jots")
    /\ UNCHANGED <<expandingId, showLenses, deepeningLens, deepening,
                   saveToJotsCalls, usedLenses, coreVars, topicsVars,
                   busyVars>>

ScoutsNext ==
    \/ ExpandScout
    \/ \E outcome \in CallOutcomes : ExpandScoutReturns(outcome)
    \/ CloseExpanded
    \/ ShowLenses
    \/ \E lens \in DEEPER_LENSES : GoDeeper(lens)
    \/ \E outcome \in CallOutcomes : GoDeeperReturns(outcome)
    \/ SaveToJots
    \/ \E i \in 1..MaxSaveToJots, outcome \in CallOutcomes :
           SaveToJotsReturns(i, outcome)
    \/ \E id \in 1..MaxSaveToJots : ToastTimerFires(id)

ScoutsSpec == TopicsInit /\ [][ScoutsNext]_vars

-----------------------------------------------------------------------------
(* BusySpec: the busy flags of fireSpark and fireMiniSpark *)

\* The largest number of fireSpark and fireMiniSpark calls.
MaxBusyCalls == 3

\* the spark types of the Synthesize, Challenge me and Expand buttons
SparkTypeButtons == {"synthesize", "challenge", "expand"}

\* what the user types into the custom prompt input
TypedPrompts == {"", "  ", "Why now?"}

\* customPrompt.trim() is not empty
hasPrompt(text) == text \notin {"", "  "}

\* the elements of the page that have a Summarize button
MiniSparkElements == {1, 2}

\* the loading key of fireMiniSpark
loadingKey(type, id) == type \o "-" \o ToString(id)

\* a call that set its flag and awaits getAccessToken() or getSession()
called(fn) == [fn |-> fn, pc |-> "getAccessToken"]

\* fireSpark(type, prompt) up to its first await
fireSpark(type) ==
    /\ busyCalls < MaxBusyCalls
    /\ busyCalls' = busyCalls + 1
    /\ sparkLoading' = type
    /\ sparkCalls' = Append(sparkCalls, called("fireSpark"))
    /\ UNCHANGED <<miniSparkLoading, jotsMiniSparkLoading, showCustom,
                   typedPrompt, coreVars, topicsVars, toastVars, scoutVars>>

\* (mutant) the buttons are not disabled while a spark runs
SparkButtonNotDisabled(type) == fireSpark(type)

\* The Synthesize, Challenge me and Expand buttons, disabled by isSparkBusy.
SparkButton(type) ==
    /\ sparkLoading = ""
    /\ fireSpark(type)

\* The Ask anything button, disabled by isSparkBusy.
AskAnything ==
    /\ sparkLoading = ""
    /\ showCustom' = ~showCustom
    /\ UNCHANGED <<sparkLoading, miniSparkLoading, jotsMiniSparkLoading,
                   typedPrompt, sparkCalls, busyCalls, coreVars, topicsVars,
                   toastVars, scoutVars>>

\* The custom prompt input's onChange.
TypePrompt(text) ==
    /\ showCustom
    /\ typedPrompt' = text
    /\ UNCHANGED <<sparkLoading, miniSparkLoading, jotsMiniSparkLoading,
                   showCustom, sparkCalls, busyCalls, coreVars, topicsVars,
                   toastVars, scoutVars>>

\* Enter in the custom prompt input.
CustomEnter ==
    /\ showCustom
    /\ hasPrompt(typedPrompt)
    /\ fireSpark("custom")

\* The custom prompt's send button, disabled by !customPrompt.trim().
CustomSend ==
    /\ showCustom
    /\ hasPrompt(typedPrompt)
    /\ fireSpark("custom")

\* IdeaView's fireMiniSpark(el, 'summarize') up to its first await; the
\* Summarize buttons are disabled while miniSparkLoading is set.
MiniSparkButton(id) ==
    /\ miniSparkLoading = ""
    /\ busyCalls < MaxBusyCalls
    /\ busyCalls' = busyCalls + 1
    /\ miniSparkLoading' = loadingKey("summarize", id)
    /\ sparkCalls' = Append(sparkCalls, called("fireMiniSpark"))
    /\ UNCHANGED <<sparkLoading, jotsMiniSparkLoading, showCustom,
                   typedPrompt, coreVars, topicsVars, toastVars, scoutVars>>

\* JotsPage's fireMiniSpark(el) up to its first await.
JotsMiniSparkButton(id) ==
    /\ jotsMiniSparkLoading = ""
    /\ busyCalls < MaxBusyCalls
    /\ busyCalls' = busyCalls + 1
    /\ jotsMiniSparkLoading' = loadingKey("summarize", id)
    /\ sparkCalls' = Append(sparkCalls, called("JotsPage.fireMiniSpark"))
    /\ UNCHANGED <<sparkLoading, miniSparkLoading, showCustom, typedPrompt,
                   coreVars, topicsVars, toastVars, scoutVars>>

\* if (!token)
tokenMissing(token) == token = ""

\* The i-th call gets its token: without one, IdeaView's functions return
\* at once and JotsPage's resets its flag first; with one the request is
\* sent.
TokenReturns(i, token) ==
    /\ i \in 1..Len(sparkCalls)
    /\ sparkCalls[i].pc = "getAccessToken"
    /\ IF tokenMissing(token)
       THEN /\ sparkCalls' = withoutIndex(sparkCalls, i)
            /\ jotsMiniSparkLoading' =
                   IF sparkCalls[i].fn = "JotsPage.fireMiniSpark"
                   THEN "" ELSE jotsMiniSparkLoading
       ELSE /\ sparkCalls' = [sparkCalls EXCEPT ![i].pc = "fetch"]
            /\ UNCHANGED jotsMiniSparkLoading
    /\ UNCHANGED <<sparkLoading, miniSparkLoading, showCustom, typedPrompt,
                   busyCalls, coreVars, topicsVars, toastVars, scoutVars>>

\* how the request of a call ends
FetchOutcomes == {"ok", "not ok", "throws"}

\* The request of the i-th call ends: with res.ok fireSpark empties and
\* closes the custom prompt; the finally block resets the call's flag.
FetchReturns(i, outcome) ==
    /\ i \in 1..Len(sparkCalls)
    /\ sparkCalls[i].pc = "fetch"
    /\ sparkCalls' = withoutIndex(sparkCalls, i)
    /\ IF sparkCalls[i].fn = "fireSpark"
       THEN /\ sparkLoading' = ""
            /\ IF outcome = "ok"
               THEN typedPrompt' = "" /\ showCustom' = FALSE
               ELSE UNCHANGED <<typedPrompt, showCustom>>
            /\ UNCHANGED <<miniSparkLoading, jotsMiniSparkLoading>>
       ELSE IF sparkCalls[i].fn = "fireMiniSpark"
       THEN /\ miniSparkLoading' = ""
            /\ UNCHANGED <<sparkLoading, jotsMiniSparkLoading, typedPrompt,
                           showCustom>>
       ELSE /\ jotsMiniSparkLoading' = ""
            /\ UNCHANGED <<sparkLoading, miniSparkLoading, typedPrompt,
                           showCustom>>
    /\ UNCHANGED <<busyCalls, coreVars, topicsVars, toastVars, scoutVars>>

\* The awaited calls return.
BusyReturns ==
    \/ \E i \in 1..MaxBusyCalls, token \in {"", AccessToken} :
           TokenReturns(i, token)
    \/ \E i \in 1..MaxBusyCalls, outcome \in FetchOutcomes :
           FetchReturns(i, outcome)

BusyNext ==
    \/ \E type \in SparkTypeButtons : SparkButton(type)
    \/ AskAnything
    \/ \E text \in TypedPrompts : TypePrompt(text)
    \/ CustomEnter
    \/ CustomSend
    \/ \E id \in MiniSparkElements : MiniSparkButton(id)
    \/ \E id \in MiniSparkElements : JotsMiniSparkButton(id)
    \/ BusyReturns

BusySpec == TopicsInit /\ [][BusyNext]_vars

\* An awaited getSession or fetch settles.
BusyLiveSpec == BusySpec /\ WF_vars(BusyReturns)

-----------------------------------------------------------------------------
(* Properties of the pages and of the route *)

\* C3 (as stated): every step leaves the content, the type and the source of
\* every element that stays in storage unchanged.
C3_ContentTypeSourceKept ==
    [][\A e \in elementsTable, f \in elementsTable' :
           f.id = e.id
               => f.content = e.content /\ f.type = e.type
                      /\ f.source = e.source]_vars

\* C3 (amended): every step leaves the type and the source of every element
\* unchanged; the content changes only on a thought of the user's (the
\* elements Edit is offered on), and then to a non-blank trimmed draft.
C3_OnlyUserThoughtsEdited ==
    [][\A e \in elementsTable, f \in elementsTable' :
           f.id = e.id
               => /\ f.type = e.type
                  /\ f.source = e.source
                  /\ f.content # e.content
                         => /\ e.type = "thought"
                            /\ e.source = "user"
                            /\ f.content # ""
                            /\ \E draft \in ContentDrafts :
                                   f.content = trim(draft)]_vars

\* C3 witness: an element whose content was edited also carries a note and a
\* summary, and is archived.
C3_Witness ==
    \E e \in elementsTable :
        /\ e.content = "edited"
        /\ e.metadata.note = "a note"
        /\ e.metadata.summary = "Insight"
        /\ e.is_archived

\* the rows a step adds to the elements table
inserted == elementsTable' \ elementsTable

\* C4: when the LLM call of a request returns and the request succeeds, a
\* regular type (standard mode) has added exactly one element, of the
\* request's idea, type spark, source ai, holding the text the response
\* carries, and has changed no other row; a mini type, in either mode, has
\* left storage as it was and the response carries the text, without the
\* success flag of a stored spark.
C4_SparkStoresOneElement ==
    [][spark.pc = "llm" /\ spark'.pc = "done" /\ ok(spark')
           => /\ \E r \in LlmResponses :
                     Len(r) > 0 /\ spark'.content = responseText(r)
              /\ spark.sparkType \in RegularTypes /\ ~spark.drawerMode
                     => /\ elementsTable \subseteq elementsTable'
                        /\ Cardinality(inserted) = 1
                        /\ \A e \in inserted :
                               /\ e.idea_id = spark.ideaId
                               /\ e.type = "spark"
                               /\ e.source = "ai"
                               /\ e.content = spark'.content
                        /\ spark'.success
                        /\ ideasTable' = ideasTable
              /\ spark.sparkType \in MiniTypes
                     => /\ elementsTable' = elementsTable
                        /\ ideasTable' = ideasTable
                        /\ ~spark'.success]_vars

\* C4 witness: a regular spark stored its element for idea 1, and a later
\* request of a mini type got the text back.
C4_Witness ==
    /\ spark.pc = "done"
    /\ spark.status = 200
    /\ ~spark.success
    /\ spark.content = "Insight"
    /\ \E e \in elementsTable :
           /\ e.idea_id = 1
           /\ e.type = "spark"
           /\ e.source = "ai"
           /\ e.content = "Insight"

\* C5: a failing LLM call is answered with HTTP 500 and an error, and neither
\* that step, nor the route before it, nor the caller that gets the 500
\* changes a row of the elements or of the ideas table.
C5_LlmFailureLeavesStorage ==
    [][/\ LlmCallThrows
           => /\ spark'.pc = "done"
              /\ spark'.status = 500
              /\ spark'.error # ""
              /\ elementsTable' = elementsTable
              /\ ideasTable' = ideasTable
       /\ spark.pc = "idle" /\ spark'.pc # "idle"
           => elementsTable' = elementsTable /\ ideasTable' = ideasTable
       /\ spark.pc = "done" /\ spark.status = 500 /\ spark'.pc = "idle"
           => elementsTable' = elementsTable /\ ideasTable' = ideasTable]_vars

\* C5 witness: a request for an idea that has an element was answered 500
\* after its LLM call failed.
C5_Witness ==
    /\ spark.pc = "done"
    /\ spark.status = 500
    /\ spark.error = "AI request failed"
    /\ spark.ideaId = 1
    /\ \E e \in elementsTable : e.idea_id = 1

-----------------------------------------------------------------------------
(* Properties of the summary builder *)

EndsWith(s, suffix) ==
    /\ Len(s) >= Len(suffix)
    /\ SubSeq(s, Len(s) - Len(suffix) + 1, Len(s)) = suffix

\* a line that is the indicator, not an element's line (those start with "[")
IsMarker(l) == Len(l) >= 5 /\ SubSeq(l, 1, 5) = "\n[..."

\* the line of the element at (1-based) position i of the sorted array
LineOf(i) == IF i > 10 THEN lines[i + 1] ELSE lines[i]

\* C6: for a collection of N > 10 elements exactly one marker line is
\* inserted, its count is N - 10 and it follows the 10th content line, in the
\* lines array and in the returned string; for N <= 10 there is no marker.
C6_MarkerLine ==
    built =>
        LET n == Len(elements)
            marker == "\n[..." \o ToString(n - 10)
                        \o " earlier elements, summarized...]"
            head == join(SubSeq(lines, 1, 10), "\n") \o "\n"
        IN  IF n > 10
            THEN /\ Len(lines) = n + 1
                 /\ \A i \in 1..Len(lines) : IsMarker(lines[i]) <=> i = 11
                 /\ lines[11] = marker
                 /\ SubSeq(summary, 1, Len(head) + Len(marker) + 1)
                        = head \o marker \o "\n"
            ELSE /\ Len(lines) = n
                 /\ \A i \in 1..Len(lines) : ~IsMarker(lines[i])

\* C6 witness: a collection of more than 11 elements was summarized.
C6_Witness == built /\ Len(elements) > 11

\* the cut the claim states for a content at a 0-based sorted index
ExpectedCut(content, index) ==
    IF index >= 10
    THEN IF Len(content) > 80 THEN SubSeq(content, 1, 80) \o "..." ELSE content
    ELSE IF Len(content) > 300 THEN SubSeq(content, 1, 300) \o "..."
         ELSE content

\* C7: the element at sorted index >= 10 has its content cut to 80 characters
\* plus "..." when longer than 80; the element at index < 10 is cut to 300
\* plus "..." when longer than 300 and never at 80 (so a collection of at most
\* 10 elements is cut at 300 throughout).
C7_AsymmetricTruncation ==
    built =>
        \A i \in 1..Len(sorted) :
            LineOf(i) = linePrefix(sorted[i]) \o " "
                \o withNote(sorted[i],
                            ExpectedCut(derivedContent(sorted[i]), i - 1))

\* C7 witness: one summary holds an older element cut at 80, a recent one cut
\* at 300 and a recent one longer than 80 that is kept whole.
C7_Witness ==
    /\ built
    /\ \E i \in 11..Len(sorted) : Len(derivedContent(sorted[i])) > 80
    /\ \E i \in 1..Min(10, Len(sorted)) :
           Len(derivedContent(sorted[i])) > 300
    /\ \E i \in 1..Min(10, Len(sorted)) :
           /\ Len(derivedContent(sorted[i])) > 80
           /\ Len(derivedContent(sorted[i])) <= 300

\* the note suffix the claim states
ExpectedNote(note) ==
    " [user note: \""
        \o (IF Len(note) > 100 THEN SubSeq(note, 1, 100) \o "..." ELSE note)
        \o "\"]"

\* C8: every element with a non-empty note has its line end with the note as
\* [user note: "..."], cut on its own at 100 characters plus "...", whatever
\* the element's position and whatever was cut from its content.
C8_NoteAlwaysShown ==
    built =>
        \A i \in 1..Len(sorted) :
            sorted[i].metadata.note # ""
                => EndsWith(LineOf(i), ExpectedNote(sorted[i].metadata.note))

\* C8 witness: an element past index 10 whose content was cut at 80 carries a
\* note.
C8_Witness ==
    /\ built
    /\ \E i \in 11..Len(sorted) :
           /\ sorted[i].metadata.note # ""
           /\ Len(derivedContent(sorted[i])) > 80

\* the longest line of a recent element: "[article] ", 300 + 3 characters of
\* content, the note wrapper (16 characters) and 100 + 3 characters of note
MaxRecentLine == 10 + 303 + 16 + 103
\* the longest line of an older element
MaxOlderLine == 10 + 83 + 16 + 103
\* the longest summary of a collection that fits the recency window: no
\* bound that holds for every collection can be smaller
SummaryWindowBound == 10 * MaxRecentLine + 9

\* C9 (as stated): the summary's length stays under one fixed bound whatever
\* the size of the collection.  The bound tried is the least one the recency
\* window allows.
C9_FixedBound == built => Len(summary) <= SummaryWindowBound

\* C9 (amended): the length is bounded linearly in the collection size N, not
\* by a constant: at least 4N - 1 characters (every element yields a line of
\* at least "[] " and the lines are joined by a newline), at most
\* MaxRecentLine for each of the first 10 lines, MaxOlderLine for each later
\* one, the marker and the N separators.
C9_LinearBound ==
    built /\ Len(elements) > 0 =>
        LET n == Len(elements)
        IN  /\ Len(summary) >= 4 * n - 1
            /\ n <= 10 => Len(summary) <= n * MaxRecentLine + (n - 1)
            /\ n > 10 =>
                  Len(summary) <= 10 * MaxRecentLine + (n - 10) * MaxOlderLine
                                      + Len(markerLine(n - 10)) + n

\* C9 witness: a collection past the recency window whose summary is longer
\* than any summary of a collection inside the window.
C9_Witness ==
    built /\ Len(elements) > 10 /\ Len(summary) > SummaryWindowBound

\* C10: the summary of an empty collection is exactly the empty string.
C10_EmptyCollection ==
    built /\ Len(elements) = 0 => summary = "" /\ lines = <<>>

\* C10 witness: the builder ran on an empty collection.
C10_Witness == built /\ elements = <<>>

\* how many times v occurs in seq
Count(seq, v) == Cardinality({i \in 1..Len(seq) : seq[i] = v})

HasTimestamp(e) == e.created_at # 0

\* C11: when every element of the collection has a created_at timestamp, the
\* content lines are the lines of the collection's elements in non-increasing
\* created_at order whatever the input order, so that the 10 lines cut at 300
\* characters are those of the 10 most recent elements.
C11_MostRecentFirst ==
    built /\ (\A i \in 1..Len(elements) : HasTimestamp(elements[i])) =>
        /\ Len(sorted) = Len(elements)
        /\ \A i \in 1..Len(elements) :
               Count(sorted, elements[i]) = Count(elements, elements[i])
        /\ \A i \in 1..(Len(sorted) - 1) :
               sorted[i].created_at >= sorted[i + 1].created_at
        /\ \A i \in 1..Len(sorted) :
               LineOf(i) = linePrefix(sorted[i]) \o " "
                   \o withNote(sorted[i],
                               ExpectedCut(derivedContent(sorted[i]), i - 1))
        /\ \A i \in 1..Len(sorted), j \in 11..Len(sorted) :
               i <= 10 => sorted[i].created_at >= sorted[j].created_at

\* C11 witness: a collection of more than 10 timestamped elements whose
\* latest element came last in the input and has the first line, and whose
\* earliest element came first in the input and is cut at 80 characters.
C11_Witness ==
    /\ built
    /\ Len(elements) > 10
    /\ \A i \in 1..Len(elements) : HasTimestamp(elements[i])
    /\ elements[Len(elements)].created_at > elements[1].created_at
    /\ sorted[1] = elements[Len(elements)]
    /\ sorted[Len(sorted)] = elements[1]
    /\ Len(derivedContent(elements[1])) > 80

\* the lines, in their order in seq, of the elements without created_at
LinesWithoutTimestamp(seq) ==
    LET missing == SelectSeq(seq, LAMBDA e : ~HasTimestamp(e))
    IN  [i \in 1..Len(missing) |-> linePrefix(missing[i]) \o " "
                                      \o derivedContent(missing[i])]

ExpectedContent(el) ==
    LET m == el.metadata
        url == IF m.url # "" THEN m.url ELSE m.public_url
        filename == IF m.filename # "" THEN m.filename ELSE m.file_name
        base == IF m.title # "" THEN m.title ELSE el.content
        described ==
            IF m.description = "" THEN base
            ELSE IF base = "" THEN m.description
            ELSE IF includes(base, m.description) THEN base
            ELSE base \o " - " \o m.description
        located == IF described = "" THEN url ELSE described
    IN  IF located = "" THEN filename ELSE located

\* C13: each line is the prefix, [spark] for an AI element and [<type>]
\* otherwise, a space, and the content derived by priority: the title, else
\* the raw content; the description appended after " - " unless the content
\* holds it already, or taken as the content when there is none; the
\* resolved url only if the content is still empty, and the resolved
\* filename only if it is empty after that.
C13_DerivedContent ==
    built =>
        /\ Len(lines) = Len(sorted)
        /\ \A i \in 1..Len(sorted) :
               lines[i] =
                   (IF sorted[i].source = "ai" THEN "[spark]"
                    ELSE "[" \o sorted[i].type \o "]")
                       \o " " \o ExpectedContent(sorted[i])

\* C13 witness: the line of an element that has a title, a raw content, a
\* description the title does not hold, a url and a filename.
C13_Witness ==
    /\ built
    /\ Len(sorted) = 1
    /\ LET m == sorted[1].metadata
       IN  /\ m.title # "" /\ sorted[1].content # "" /\ m.description # ""
           /\ m.url # "" /\ m.filename # ""
           /\ lines[1] = "[" \o sorted[1].type \o "] Title - Desc"

\* C14: metaUrl is metadata.url when that is present and not empty, else
\* metadata.public_url, else absent; metaFilename is metadata.filename, else
\* metadata.file_name, else the literal File, and never absent.  The two keys
\* are never merged.
C14_CanonicalThenLegacy ==
    context.calls > 0 =>
        LET m == context.el.metadata
        IN  /\ m.url # "" => context.metaUrl = m.url
            /\ m.url = "" /\ m.public_url # ""
                   => context.metaUrl = m.public_url
            /\ m.url = "" /\ m.public_url = "" => context.metaUrl = ""
            /\ m.filename # "" => context.metaFilename = m.filename
            /\ m.filename = "" /\ m.file_name # ""
                   => context.metaFilename = m.file_name
            /\ m.filename = "" /\ m.file_name = ""
                   => context.metaFilename = "File"
            /\ context.metaFilename # ""

\* C14 witness: the helpers ran on a metadata that has both keys of the url
\* and only the legacy key of the filename.
C14_Witness ==
    /\ context.calls > 0
    /\ context.el.metadata.url # ""
    /\ context.el.metadata.public_url # ""
    /\ context.el.metadata.filename = ""
    /\ context.metaFilename = "old.pdf"

\* the entries of the context the claim lists, in its order
ExpectedEntries(c) ==
    <<c.el.content,
      IF c.metaUrl # "" THEN "URL: " \o c.metaUrl ELSE "",
      IF c.el.metadata.title # "" THEN "Title: " \o c.el.metadata.title
      ELSE "",
      IF c.el.metadata.description # ""
      THEN "Description: " \o c.el.metadata.description ELSE "",
      IF c.el.type \in {"file", "image"} THEN "File: " \o c.metaFilename
      ELSE "">>

\* s holds an empty line, or starts or ends with a newline
HasEmptyLine(s) ==
    \/ includes(s, "\n\n")
    \/ Len(s) > 0 /\ (SubSeq(s, 1, 1) = "\n" \/ EndsWith(s, "\n"))

\* the context is the non-empty entries in the claim's order, one newline
\* between two of them
IsJoinedEntries(c) ==
    LET kept == SelectSeq(ExpectedEntries(c), LAMBDA entry : entry # "")
    IN  /\ c.output = join(kept, "\n")
        /\ Len(c.output) =
               IF Len(kept) = 0 THEN 0
               ELSE Len(join(kept, "")) + Len(kept) - 1

\* C15 (as stated): the context is the non-empty entries among the raw
\* content, URL, Title, Description and File (file and image only), joined by
\* a single newline, and it has no empty line and no trailing newline.
C15_NoEmptyLines ==
    context.calls > 0 =>
        /\ IsJoinedEntries(context)
        /\ ~HasEmptyLine(context.output)

\* C15 (amended): the context is the non-empty entries in that order joined
\* by a single newline; the builder adds no empty line and no trailing
\* newline, so the context has one only where an entry has one; an element
\* with only the content hello yields exactly hello.
C15_ContextEntries ==
    context.calls > 0 =>
        /\ IsJoinedEntries(context)
        /\ (\A i \in 1..5 : ~HasEmptyLine(ExpectedEntries(context)[i]))
               => ~HasEmptyLine(context.output)
        /\ (/\ context.el.content = "hello"
            /\ context.el.metadata = NoMeta
            /\ context.el.type \notin {"file", "image"})
               => context.output = "hello"

\* C15 witness: the context of a file that has all five entries, and they
\* are five lines.
C15_Witness ==
    /\ context.calls > 0
    /\ context.el.type = "file"
    /\ context.el.content = "hello"
    /\ context.output =
           "hello\nURL: https://u\nTitle: Title\nDescription: Desc"
               \o "\nFile: f.pdf"

\* the early-stage note of the claim, for a count n
EarlyStageNote(n) ==
    "This is an early-stage idea with only " \o ToString(n)
        \o " elements - focus on helping them clarify what they're actually"
        \o " exploring."

\* the substantial-material note of the claim, for a count n
SubstantialNote(n) ==
    "This idea has " \o ToString(n)
        \o " elements - there's substantial material to synthesize and"
        \o " patterns to surface."

\* C16: the early-stage note is appended exactly when the element count is
\* at most 3, the substantial-material note exactly when it is at least 15,
\* neither for a count from 4 to 14, and never both.
C16_MaturityNote ==
    composed.calls > 0 =>
        LET n == composed.elementCount
            early == includes(composed.output, "early-stage idea")
            substantial == includes(composed.output, "substantial material")
        IN  /\ early <=> n <= 3
            /\ substantial <=> n >= 15
            /\ ~(early /\ substantial)
            /\ n <= 3 => EndsWith(composed.output, "\n\n" \o EarlyStageNote(n))
            /\ n >= 15
                   => EndsWith(composed.output, "\n\n" \o SubstantialNote(n))
            /\ n \in 4..14
                   => \/ EndsWith(composed.output, composed.elementsSummary \o "\n")
                      \/ EndsWith(composed.output, "No elements collected yet.\n")

\* C16 witness: the composer ran with exactly 15 elements.
C16_Witness ==
    /\ composed.calls > 0
    /\ composed.elementCount = 15
    /\ EndsWith(composed.output, SubstantialNote(15))

\* the context block of the claim
ExpectedContextBlock(c) ==
    "\n\nCONTEXT:\nThe user is developing an idea called \"" \o c.ideaTitle
        \o "\".\n"
        \o (IF c.currentThinking = ""
            THEN "\nThey haven't written their current thinking yet."
            ELSE "\nTheir current thinking:\n\"" \o c.currentThinking \o "\"")
        \o "\n"
        \o (IF c.elementsSummary = "" THEN "\nNo elements collected yet."
            ELSE "\nTheir collected elements:\n" \o c.elementsSummary)
        \o "\n"

\* C17: the output is the fixed preamble, then the context block with the
\* literal title, the current thinking or its placeholder and the elements
\* summary or its placeholder, then the maturity hint if there is one, in
\* that order.
C17_PreambleContextHint ==
    composed.calls > 0 =>
        LET block == ExpectedContextBlock(composed)
            hint == SubSeq(composed.output,
                           Len(SYSTEM_PROMPT_BASE) + Len(block) + 1,
                           Len(composed.output))
        IN  /\ composed.output = SYSTEM_PROMPT_BASE \o block \o hint
            /\ includes(block, "\"" \o composed.ideaTitle \o "\"")
            /\ hint \in {"",
                          "\n" \o EarlyStageNote(composed.elementCount),
                          "\n" \o SubstantialNote(composed.elementCount)}

\* C17 witness: the composer ran with the current thinking written and
\* without elements: the thinking and the elements placeholder are in the
\* output.
C17_Witness ==
    /\ composed.calls > 0
    /\ composed.currentThinking # ""
    /\ composed.elementsSummary = ""
    /\ composed.elementCount = 0
    /\ includes(composed.output, "Smaller is freer.")
    /\ includes(composed.output, "No elements collected yet.")

ReceiptErrors == {"Unauthorized", "ideaId is required", "Idea not found"}

\* the types the switch names
SwitchTypes ==
    {"synthesize", "challenge", "expand", "custom", "mini", "summarize",
     "related"}

\* C19: selecting the user prompt by sparkType raises no error: a request is
\* refused on receipt only for its Authorization header or its idea, a
\* request that is not refused reaches the LLM call with a non-empty user
\* prompt whatever its type, and a missing or unrecognized type gets the
\* generic 'What do you think about my idea so far?'.
C19_SelectionNeverFails ==
    [][spark.pc = "idle" /\ spark'.pc # "idle"
          => \/ /\ spark'.pc = "done"
                /\ spark'.status \in {400, 401, 404}
                /\ spark'.error \in ReceiptErrors
                /\ \/ spark'.error = "Unauthorized"
                   \/ spark'.ideaId = 0
                   \/ ~IdeaExists(spark'.ideaId)
             \/ /\ spark'.pc = "llm"
                /\ spark'.userPrompt # ""
                /\ spark'.sparkType \notin SwitchTypes
                       => spark'.userPrompt = GenericPrompt]_vars

\* C19 witness: a request of a type the route does not know waits for the
\* LLM with the generic prompt.
C19_Witness ==
    /\ spark.pc = "llm"
    /\ spark.sparkType = "so-what"
    /\ spark.userPrompt = "What do you think about my idea so far?"

\* the template the registry holds for an identifier of the closed set
RegistryTemplate(sparkType) ==
    IF sparkType = "synthesize" THEN SPARK_PROMPTS.synthesize
    ELSE IF sparkType = "challenge" THEN SPARK_PROMPTS.challenge
    ELSE IF sparkType = "expand" THEN SPARK_PROMPTS.expand
    ELSE SPARK_PROMPTS.soWhat

\* the closed set of action identifiers
ActionIdentifiers == {"synthesize", "challenge", "expand", "so-what"}

\* C20: a spark request whose type is synthesize, challenge, expand or
\* so-what reaches the LLM with the registry's template for that type, and
\* only a type outside that set reaches it with the generic fallback prompt.
C20_RegistryTemplateSelected ==
    spark.pc = "llm" =>
        /\ spark.sparkType \in ActionIdentifiers
               => spark.userPrompt = RegistryTemplate(spark.sparkType)
        /\ spark.userPrompt = GenericPrompt
               => spark.sparkType \notin ActionIdentifiers

\* an element as the summary builder takes it: created_at is the order of
\* creation
asElement(row) ==
    [type |-> row.type, source |-> row.source, content |-> row.content,
     metadata |-> row.metadata, created_at |-> row.id]

\* the request is handled by the standard branch
StandardBranch(req) == ~(req.drawerMode /\ req.sparkType \in MiniTypes)

\* C21: when the standard branch calls the LLM, the digest in its system
\* prompt is buildElementsSummary of the elements it loaded, and the system
\* prompt is getSystemPromptWithIdea of the idea's title and current
\* thinking, that digest and the number of elements.
C21_RouteUsesPipeline ==
    (spark.pc = "llm" /\ StandardBranch(spark)) =>
        LET els == [i \in 1..Len(spark.loaded) |-> asElement(spark.loaded[i])]
            idea == ideaRow(spark.ideaId)
        IN  /\ spark.elementsSummary
                   = buildElementsSummary(els, sortElements(els))
            /\ spark.systemPrompt
                   = getSystemPromptWithIdea(idea.title, idea.current_thinking,
                                             spark.elementsSummary, Len(els))

\* the fixed texts of the route's prompts hold nothing of the other user's
\* element
FixedPromptsClean ==
    /\ ~includes(DRAWER_SYSTEM_PROMPT, ForeignElement.content)
    /\ ~includes(ROUTE_PROMPT_RULES, ForeignElement.content)

\* the prompt up to its closing rules, and as much of these as a text that
\* starts before them can reach into
beforeRules(prompt) ==
    slice(prompt, Len(prompt) - Len(ROUTE_PROMPT_RULES)
                      + Len(ForeignElement.content) - 1)

\* the prompt ends with the rules
endsWithRules(prompt) ==
    /\ Len(prompt) >= Len(ROUTE_PROMPT_RULES)
    /\ SubSeq(prompt, Len(prompt) - Len(ROUTE_PROMPT_RULES) + 1, Len(prompt))
           = ROUTE_PROMPT_RULES

\* the prompt holds nothing of the other user's element: it is the drawer's
\* fixed prompt, or the text occurs nowhere in it (before the closing
\* rules, when the prompt ends with them: FixedPromptsClean covers these)
PromptClean(req) ==
    \/ req.systemPrompt = DRAWER_SYSTEM_PROMPT
    \/ /\ endsWithRules(req.systemPrompt)
       /\ ~includes(beforeRules(req.systemPrompt), ForeignElement.content)
    \/ ~includes(req.systemPrompt, ForeignElement.content)

\* C22: a request refused with 401, 400 or 404 has called no LLM and has
\* changed no table: it is answered in the step that receives it, with 401
\* exactly when the header is not 'Bearer ' followed by a token that names
\* a user, 400 when the standard branch gets no ideaId and 404 when the
\* idea is not one of the user's; and whenever the LLM is called, the
\* idea and the elements in the prompt are the user's.
C22_RefusedWithoutEffect ==
    /\ [][(spark.pc # "done" /\ spark'.pc = "done"
               /\ spark'.status \in {400, 401, 404})
              => /\ spark.pc = "idle"
                 /\ UNCHANGED storageVars
                 /\ spark'.content = "" /\ ~spark'.success]_vars
    /\ [][(spark.pc = "idle" /\ spark'.pc = "llm")
              => /\ spark'.authHeader = "Bearer " \o AccessToken
                 /\ \/ ~StandardBranch(spark')
                    \/ /\ spark'.ideaId # 0
                       /\ ideasTable[spark'.ideaId] \in {"active", "archived"}]_vars
    /\ FixedPromptsClean
    /\ [](spark.pc = "llm" =>
              /\ \A i \in 1..Len(spark.loaded) :
                     spark.loaded[i].idea_id = spark.ideaId
              /\ PromptClean(spark))

\* C22 witness: a request for the other user's idea was answered with 404
\* while that idea's element is in storage.
C22_Witness ==
    /\ spark.pc = "done"
    /\ spark.status = 404
    /\ spark.ideaId = ForeignIdeaId
    /\ ForeignElement \in elementsTable

\* the cases of the claim in which an attachment cannot be loaded
CannotBeLoaded(a, res) ==
    \/ res.outcome # "ok"
    \/ a.type = "image" /\ res.bytes > 3 * 1024 * 1024
    \/ a.type # "image" /\ a.file_type = "application/pdf"
           /\ res.bytes > 5 * 1024 * 1024
    \/ a.type # "image" /\ startsWith(a.file_type, "text/")
           /\ res.bytes > 5 * 1024 * 1024
    \/ a.type # "image" /\ a.file_type # "application/pdf"
           /\ ~startsWith(a.file_type, "text/")

\* C23: a request with an attachment reaches the LLM call whatever the fetch
\* of the attachment does: when fetchAttachment returns null the user message
\* is one text block, the user prompt followed by the 'could not be loaded'
\* note; otherwise it is the attachment's blocks followed by one text block,
\* the user prompt.
C23_AttachmentNeverFails ==
    /\ [][(spark.pc = "idle" /\ spark'.pc = "done"
              /\ spark'.status \notin {400, 401, 404}) => FALSE]_vars
    /\ [](spark.pc = "llm" /\ Len(spark.attachment) = 1 =>
              LET m == spark.messageContent
                  last == m[Len(m)]
              IN  \/ /\ CannotBeLoaded(spark.attachment[1], spark.fetched[1])
                     /\ Len(m) = 1
                     /\ m[1].type = "text"
                     /\ startsWith(m[1].text,
                                   spark.userPrompt
                                       \o "\n[Note: The attached file \"")
                     /\ includes(m[1].text, "could not be loaded")
                  \/ /\ ~CannotBeLoaded(spark.attachment[1], spark.fetched[1])
                     /\ Len(m) = 2
                     /\ m[1].type \in {"image", "document", "text"}
                     /\ m[1].text # spark.userPrompt
                     /\ last = [type |-> "text", media_type |-> "",
                                text |-> spark.userPrompt])

\* C23 witness: a PDF that could not be loaded; the LLM is called with the
\* prompt and the note.
C23_Witness ==
    /\ spark.pc = "llm"
    /\ Len(spark.attachment) = 1
    /\ spark.attachment[1].file_type = "application/pdf"
    /\ spark.fetched[1].outcome = "ok"
    /\ Len(spark.messageContent) = 1
    /\ includes(spark.messageContent[1].text, "could not be loaded")

\* C24: at most 5 topics are selected; once a topic is selected the
\* selection never becomes empty again; and a toggleInterest call that would
\* select a sixth topic or remove the last one changes neither the selection
\* nor the stored settings and calls no save.
C24_TopicsBetweenOneAndFive ==
    /\ [](Cardinality(interests) <= 5)
    /\ [][interests # {} => interests' # {}]_vars
    /\ [][(/\ toggleCalls' = toggleCalls + 1
           /\ \/ toggled' \notin interests /\ Cardinality(interests) = 5
              \/ interests = {toggled'})
              => /\ interests' = interests
                 /\ scoutInterests' = scoutInterests
                 /\ saveCalls' = saveCalls]_vars

\* C24 witness: with 5 topics selected a sixth was toggled and refused.
C24_Witness ==
    /\ Cardinality(interests) = 5
    /\ toggled \notin interests
    /\ toggled # ""
    /\ saveCalls = 5
    /\ toggleCalls = 6

\* C25: whatever the order of the saveToJots calls and of their inserts, at
\* most one element is inserted for the scout.
C25_SavedAtMostOnce == jotsInserted <= 1

\* C26: a lens that a goDeeper call of the scout got an answer for is not
\* among the lenses offered; the deeper results of the scout, in the list
\* and expanded, hold no lens twice and so at most 5 results; and Go deeper
\* is not offered once all lenses are used.
C26_LensUsedOnce ==
    LET NoLensTwice(scout) ==
            /\ \A i, j \in 1..Len(scout.deeperResults) :
                   scout.deeperResults[i] = scout.deeperResults[j] => i = j
            /\ Len(scout.deeperResults) <= 5
    IN  /\ NoLensTwice(scouts)
        /\ expandedScout # <<>> =>
               /\ NoLensTwice(expandedScout[1])
               /\ getAvailableLenses(expandedScout[1]) \cap usedLenses = {}
               /\ usedLenses = DEEPER_LENSES
                      => /\ ~ENABLED ShowLenses
                         /\ \A lens \in DEEPER_LENSES : ~ENABLED GoDeeper(lens)

\* C30: whatever the showToast calls, at most one hide timer is pending; a
\* visible toast is the message of the last call; the toast is cleared by
\* the timer of the last call only; and a visible toast is cleared in the
\* end.
C30_OneTimerLastToast ==
    /\ [](Cardinality(toastTimers) <= 1)
    /\ [](toast # "" => toast = lastToast /\ toastTimers = {toastTimer})
    /\ [][toast # "" /\ toast' = "" => toastTimer \in toastTimers \ toastTimers']_vars
    /\ [](toast # "" => <>(toast = "" /\ toastTimers = {}))

\* three calls in a row replaced each other's toast and timer, and the last
\* toast was cleared
C30_Witness ==
    /\ toastCalls = 3
    /\ toastTimer = 3
    /\ toastTimers = {}
    /\ toast = ""
    /\ lastToast = "Saved to Jots"

\* the update leaves the note stored for element `id` as it is
NoteKept(id) ==
    \A e \in elementsTable, f \in elementsTable' :
        e.id = id /\ f.id = id => f.metadata.note = e.metadata.note

\* C29 as stated: an enrichment of an element's metadata, by the answer of
\* a mini-spark or by the metadata fetched for a link, leaves the note that
\* is stored for the element at that moment as it is, and with it a note
\* the user saved while the request was in flight.
C29_EnrichmentKeepsNote ==
    [][/\ spark.caller = "fireMiniSpark" /\ spark.pc = "done"
          /\ spark'.pc = "idle"
          => NoteKept(spark.elId)
       /\ pendingMeta # <<>> /\ pendingMeta' = <<>>
          => NoteKept(pendingMeta[1].id)]_vars

\* after the update element `id` has the note `note`
NoteBecomes(id, note) ==
    \A f \in elementsTable' : f.id = id => f.metadata.note = note

\* C29 as amended: the last write wins.  The answer of a mini-spark is
\* stored with the note the element had when Summarize was clicked, and
\* the title and description fetched for a link are stored without a note,
\* whatever note was saved while the request was in flight.
C29_LastWriteWins ==
    [][/\ spark.caller = "fireMiniSpark" /\ spark.pc = "done" /\ ok(spark)
          /\ spark'.pc = "idle"
          => /\ NoteBecomes(spark.elId, spark.elMetadata.note)
             /\ \A f \in elementsTable' :
                    f.id = spark.elId => f.metadata.summary = spark.content
       /\ pendingMeta # <<>> /\ pendingMeta' = <<>>
              /\ elementsTable' # elementsTable
          => /\ NoteBecomes(pendingMeta[1].id, "")
             /\ \A f \in elementsTable' :
                    f.id = pendingMeta[1].id =>
                        f.metadata.title # "" \/ f.metadata.description # ""]_vars

\* the answer of a mini-spark has arrived for an element whose note was
\* saved after Summarize was clicked
C29_Witness ==
    /\ spark.caller = "fireMiniSpark"
    /\ spark.pc = "done"
    /\ ok(spark)
    /\ \E e \in elementsTable :
           /\ e.id = spark.elId
           /\ e.metadata.note = "a note"
           /\ spark.elMetadata.note = ""

\* C27: a busy flag of the idea page that is set is reset in the end,
\* however the call that set it ends.
C27_BusyFlagReleased ==
    /\ [](sparkLoading # "" => <>(sparkLoading = ""))
    /\ [](miniSparkLoading # "" => <>(miniSparkLoading = ""))

\* the fireSpark calls that are at their request
requestsInFlight ==
    {i \in 1..Len(sparkCalls) :
        sparkCalls[i].fn = "fireSpark" /\ sparkCalls[i].pc = "fetch"}

\* C28 as stated: at most one spark request of fireSpark is in flight on
\* the idea page.
C28_OneSparkInFlight == Cardinality(requestsInFlight) <= 1

\* a step that starts a fireSpark call
StartsFireSpark ==
    /\ busyCalls' = busyCalls + 1
    /\ sparkCalls'[Len(sparkCalls')].fn = "fireSpark"

\* C28 as amended: while sparkLoading is set, the Synthesize, Challenge me
\* and Expand buttons start no fireSpark and Ask anything does not open or
\* close the custom prompt; a fireSpark that starts then is a custom one,
\* from the open custom prompt with a text that is not blank.
C28_OnlyCustomWhileBusy ==
    [][sparkLoading # "" =>
          /\ showCustom' # showCustom => sparkCalls' # sparkCalls
          /\ StartsFireSpark =>
                 sparkLoading' = "custom" /\ showCustom
                     /\ hasPrompt(typedPrompt)]_vars

\* a custom spark was started while Synthesize was running, and both are
\* at their request
C28_Witness ==
    /\ Len(sparkCalls) = 2
    /\ requestsInFlight = {1, 2}
    /\ sparkLoading = "custom"
    /\ showCustom

====
